---- MODULE Spec2Model ----
(***************************************************************************)
(* The markdown-to-HTML parser of junodeck/notebook-renderer                *)
(* (src/src/components/cells/MarkdownCell.tsx), as a state machine.         *)
(*                                                                         *)
(* A text is a TLA+ string; a character is a string of length one.  Every  *)
(* regular expression of the source is an operator that scans the text the *)
(* way the JavaScript engine does (leftmost match, greedy and lazy         *)
(* quantifiers with their backtracking), and every emitted tag is the      *)
(* character string the source emits, so that a later stage sees (and may  *)
(* rewrite) the markup an earlier stage produced.  The one character a     *)
(* TLA+ string literal cannot hold, the grave accent of code spans and     *)
(* fences, is written Tick and shows as ^ in a text; no text of the model  *)
(* holds a circumflex of its own.                                          *)
(*                                                                         *)
(* One parseMarkdown call is a run of nine steps, one per stage; pc names  *)
(* the stage that runs next.  escapeHtml and generateId are also exported  *)
(* and have their own specification (SpecUtil).                            *)
(***************************************************************************)
EXTENDS Integers, Sequences, FiniteSets, TLC

VARIABLES
    fn,         \* the exported function the caller called
    pc,         \* the next step of the call in progress, or "done"
    markdown,   \* parseMarkdown's first argument
    options,    \* parseMarkdown's second argument: the fields the caller supplied
    opts,       \* const opts: the defaults overridden by options
    text,       \* let text: the buffer the stages thread
    metadata,   \* const metadata: headings, links, images, codeBlocks
    stages,     \* history: the stages run so far, with what each received and produced
    arg,        \* the argument of the escapeHtml / generateId call
    loop,       \* the line loop in progress in a stage run step by step, or NoLoop
    ret         \* the values the escapeHtml / generateId calls returned, in order

vars == <<fn, pc, markdown, options, opts, text, metadata, stages, arg, loop, ret>>

----------------------------------------------------------------------------
(* Strings and characters *)

At(s, i) == SubSeq(s, i, i)

\* s.substring(i-1, j) for 1-based inclusive i..j; empty when j < i
Sub(s, i, j) == IF j < i THEN "" ELSE SubSeq(s, i, j)

\* s.startsWith(lit, i-1)
LitAt(s, i, lit) ==
    /\ i >= 1
    /\ i + Len(lit) - 1 <= Len(s)
    /\ SubSeq(s, i, i + Len(lit) - 1) = lit

\* the characters \s matches (those a TLA+ string can hold)
WhiteSpace == {" ", "\t", "\n", "\r", "\f"}

\* the characters . does not match
LineTerminators == {"\n", "\r"}

UpperCase == "ABCDEFGHIJKLMNOPQRSTUVWXYZ"

LowerCase == "abcdefghijklmnopqrstuvwxyz"

Digits == "0123456789"

CharsOf(s) == {At(s, i) : i \in 1..Len(s)}

\* the characters \w matches
WordChars == CharsOf(UpperCase) \cup CharsOf(LowerCase) \cup CharsOf(Digits) \cup {"_"}

IsSpace(c) == c \in WhiteSpace

IsDot(c) == c \notin LineTerminators

\* the first index in lo..hi whose character is in S (neg = FALSE) or is not
\* in S (neg = TRUE), 0 when there is none; the range is halved so that the
\* evaluation stays shallow on a long text
RECURSIVE FirstIdx(_, _, _, _, _)
FirstIdx(s, lo, hi, S, neg) ==
    IF lo > hi THEN 0
    ELSE IF lo = hi THEN (IF (At(s, lo) \in S) # neg THEN lo ELSE 0)
    ELSE LET mid == (lo + hi) \div 2
             l == FirstIdx(s, lo, mid, S, neg)
         IN  IF l # 0 THEN l ELSE FirstIdx(s, mid + 1, hi, S, neg)

\* the first index >= i whose character is not in set S (Len(s)+1 when none)
SkipSet(s, i, S) ==
    LET r == FirstIdx(s, i, Len(s), S, TRUE) IN IF r = 0 THEN Len(s) + 1 ELSE r

\* the first index >= i whose character is in set S (Len(s)+1 when none)
FindSet(s, i, S) ==
    LET r == FirstIdx(s, i, Len(s), S, FALSE) IN IF r = 0 THEN Len(s) + 1 ELSE r

\* the first index >= i at which lit occurs (0 when none): s.indexOf(lit, i-1) + 1
RECURSIVE IndexOf(_, _, _)
IndexOf(s, i, lit) ==
    LET p == FindSet(s, i, {At(lit, 1)})
    IN  IF p > Len(s) THEN 0
        ELSE IF LitAt(s, p, lit) THEN p
        ELSE IndexOf(s, p + 1, lit)

\* the last index in lo..hi whose character is not whitespace (0 when none),
\* the range halved as in FirstIdx
RECURSIVE LastNonSpace(_, _, _)
LastNonSpace(s, lo, hi) ==
    IF lo > hi THEN 0
    ELSE IF lo = hi THEN (IF IsSpace(At(s, lo)) THEN 0 ELSE lo)
    ELSE LET mid == (lo + hi) \div 2
             r == LastNonSpace(s, mid + 1, hi)
         IN  IF r # 0 THEN r ELSE LastNonSpace(s, lo, mid)

\* String.prototype.trim
Trim(s) == Sub(s, SkipSet(s, 1, WhiteSpace), LastNonSpace(s, 1, Len(s)))

----------------------------------------------------------------------------
(* escapeHtml, MarkdownCell.tsx:248-258 *)

\* a table without the "&" entry
htmlEscapesNoAmp(c) ==
    CASE c = "<" -> "&lt;"
      [] c = ">" -> "&gt;"
      [] c = "\"" -> "&quot;"
      [] c = "'" -> "&#39;"
      [] OTHER -> c

htmlEscapes(c) ==
    CASE c = "&" -> "&amp;"
      [] c = "<" -> "&lt;"
      [] c = ">" -> "&gt;"
      [] c = "\"" -> "&quot;"
      [] c = "'" -> "&#39;"
      [] OTHER -> c

\* text.replace(/[&<>"']/g, (match) => htmlEscapes[match] || match)
\* over the characters lo..hi, the range halved as in FirstIdx
RECURSIVE escapeHtmlFrom(_, _, _)
escapeHtmlFrom(s, lo, hi) ==
    IF lo > hi THEN ""
    ELSE IF lo = hi THEN htmlEscapes(At(s, lo))
    ELSE escapeHtmlFrom(s, lo, (lo + hi) \div 2)
         \o escapeHtmlFrom(s, (lo + hi) \div 2 + 1, hi)

escapeHtml(s) == escapeHtmlFrom(s, 1, Len(s))

----------------------------------------------------------------------------
(* generateId, MarkdownCell.tsx:263-270 *)

toLowerCaseChar(c) ==
    IF c \in CharsOf(UpperCase)
    THEN At(LowerCase, CHOOSE i \in 1..Len(UpperCase) : At(UpperCase, i) = c)
    ELSE c

\* text.toLowerCase() over the characters lo..hi, the range halved as in FirstIdx
RECURSIVE toLowerCaseFrom(_, _, _)
toLowerCaseFrom(s, lo, hi) ==
    IF lo > hi THEN ""
    ELSE IF lo = hi THEN toLowerCaseChar(At(s, lo))
    ELSE toLowerCaseFrom(s, lo, (lo + hi) \div 2)
         \o toLowerCaseFrom(s, (lo + hi) \div 2 + 1, hi)

toLowerCase(s) == toLowerCaseFrom(s, 1, Len(s))

\* .replace(/[^\w\s-]/g, "") over the characters lo..hi
RECURSIVE RemoveSpecial(_, _, _)
RemoveSpecial(s, lo, hi) ==
    IF lo > hi THEN ""
    ELSE IF lo = hi
    THEN (IF At(s, lo) \in WordChars \cup WhiteSpace \cup {"-"} THEN At(s, lo) ELSE "")
    ELSE RemoveSpecial(s, lo, (lo + hi) \div 2)
         \o RemoveSpecial(s, (lo + hi) \div 2 + 1, hi)

\* .replace(/X+/g, "-") for a character set X, from index i on: each maximal
\* run becomes one hyphen
RECURSIVE RunsToHyphen(_, _, _)

\* the same, the next run beginning at p (beyond the text: none)
RunsToHyphenAt(s, i, p, X) ==
    IF p > Len(s) THEN Sub(s, i, Len(s))
    ELSE Sub(s, i, p - 1) \o "-" \o RunsToHyphen(s, SkipSet(s, p, X), X)

RunsToHyphen(s, i, X) == RunsToHyphenAt(s, i, FindSet(s, i, X), X)

\* the last replace left out
KeepHyphens(s) == s

\* .replace(/^-|-$/g, "")
TrimOneHyphen(s) ==
    LET a == IF LitAt(s, 1, "-") THEN Sub(s, 2, Len(s)) ELSE s
    IN  IF a # "" /\ At(a, Len(a)) = "-" THEN Sub(a, 1, Len(a) - 1) ELSE a

generateId(s) ==
    LET lowered   == toLowerCase(s)
        stripped  == RemoveSpecial(lowered, 1, Len(lowered))
        hyphened  == RunsToHyphen(stripped, 1, WhiteSpace)
        collapsed == RunsToHyphen(hyphened, 1, {"-"})
    IN  TrimOneHyphen(collapsed)

----------------------------------------------------------------------------
(* Options, MarkdownCell.tsx:201-226 and 685-692 *)

OptionFields == {"sanitize", "linksInNewTab", "classPrefix", "gfm", "math"}

DefaultOptions ==
    [sanitize |-> TRUE, linksInNewTab |-> TRUE, classPrefix |-> "nb-md",
     gfm |-> TRUE, math |-> FALSE]

\* { sanitize: true, ..., ...options }: a field the caller supplied wins
MergeOptions(o) ==
    [f \in OptionFields |-> IF f \in DOMAIN o THEN o[f] ELSE DefaultOptions[f]]

\* const classPrefix = options.classPrefix || "nb-md"
ClassPrefixOf(o) == IF o.classPrefix = "" THEN "nb-md" ELSE o.classPrefix

\* an optional value: undefined, or the value itself
Undefined == <<>>

Some(v) == <<v>>

----------------------------------------------------------------------------
(* parseCode, MarkdownCell.tsx:342-370 *)

\* the grave accent
Tick == "^"

Fence == Tick \o Tick \o Tick

\* String.prototype.replace with a callback that pushes entries: the text
\* and the entries when nothing more matches in the tail
NoMore(tail) == [text |-> tail, entries |-> <<>>]

\* the text before a failed attempt, and what the rest of the text gives
Skipped(before, rest) == [text |-> before \o rest.text, entries |-> rest.entries]

\* the text before a match, what the callback returned (html) and pushed
\* (entries), and what the rest of the text gives
Replaced(before, c, rest) ==
    [text |-> before \o c.html \o rest.text, entries |-> c.entries \o rest.entries]

\* /```(\w+)?\n?([\s\S]*?)```/ tried at index p: the index after (\w+)?
FenceLangEnd(s, p) == SkipSet(s, p + 3, WordChars)

\* the index after \n?, where the body ([\s\S]*?) begins
FenceBodyStart(s, p) ==
    LET l == FenceLangEnd(s, p) IN IF LitAt(s, l, "\n") THEN l + 1 ELSE l

\* the index of the closing fence of a match at p, 0 when the regex fails at p
FenceClose(s, p) ==
    IF LitAt(s, p, Fence) THEN IndexOf(s, FenceBodyStart(s, p), Fence) ELSE 0

\* the callback's first capture: undefined when (\w+)? matched nothing
FenceLanguage(s, p) ==
    IF FenceLangEnd(s, p) = p + 3 THEN Undefined
    ELSE Some(Sub(s, p + 3, FenceLangEnd(s, p) - 1))

\* the fragment with the language class written without the test of language
CodeBlockHtmlAlwaysLang(language, trimmedCode, classPrefix) ==
    "<pre class=\"" \o classPrefix \o "-code-block\"><code class=\""
    \o classPrefix \o "-code language-"
    \o (IF language # Undefined THEN language[1] ELSE "undefined")
    \o "\">" \o escapeHtml(trimmedCode) \o "</code></pre>"

\* the fragment the callback returns
CodeBlockHtml(language, trimmedCode, classPrefix) ==
    "<pre class=\"" \o classPrefix \o "-code-block\"><code class=\""
    \o classPrefix \o "-code"
    \o (IF language # Undefined THEN " language-" \o language[1] ELSE "")
    \o "\">" \o escapeHtml(trimmedCode) \o "</code></pre>"

\* the callback (match, language, code) => { ... } once code is trimmed
FencedCallback(language, trimmedCode, classPrefix) ==
    [html |-> CodeBlockHtml(language, trimmedCode, classPrefix),
     entries |-> <<[language |-> language, code |-> trimmedCode]>>]

\* text.replace(/```(\w+)?\n?([\s\S]*?)```/g, callback) from index i on, with
\* the entries the callback pushes
RECURSIVE ReplaceFenced(_, _, _)

\* the same, the next fence being at p (0: none) and closing at e (0: the
\* regex fails at p)
ReplaceFencedAt(s, i, p, e, classPrefix) ==
    IF p = 0 THEN NoMore(Sub(s, i, Len(s)))
    ELSE IF e = 0
    THEN Skipped(Sub(s, i, p), ReplaceFenced(s, p + 1, classPrefix))
    ELSE Replaced(Sub(s, i, p - 1),
                  FencedCallback(FenceLanguage(s, p),
                                 Trim(Sub(s, FenceBodyStart(s, p), e - 1)),
                                 classPrefix),
                  ReplaceFenced(s, e + 3, classPrefix))

ReplaceFenced(s, i, classPrefix) ==
    ReplaceFencedAt(s, i, IndexOf(s, i, Fence), FenceClose(s, IndexOf(s, i, Fence)),
                    classPrefix)

\* /`([^`]+)`/ tried at index p: the index of the closing tick, 0 when it fails
InlineCodeClose(s, p) ==
    LET e == FindSet(s, p + 1, {Tick})
    IN  IF LitAt(s, p, Tick) /\ e <= Len(s) /\ e > p + 1 THEN e ELSE 0

\* the replacement string `<code class="...-inline-code">$1</code>`
InlineCodeHtml(content, classPrefix) ==
    "<code class=\"" \o classPrefix \o "-inline-code\">" \o content \o "</code>"

\* parsedText.replace(/`([^`]+)`/g, ...) from index i on
RECURSIVE ReplaceInlineCode(_, _, _)

\* the same, the next tick being at p (beyond the text: none) and its span
\* closing at e (0: the regex fails at p)
ReplaceInlineCodeAt(s, i, p, e, classPrefix) ==
    IF p > Len(s) THEN Sub(s, i, Len(s))
    ELSE IF e = 0 THEN Sub(s, i, p) \o ReplaceInlineCode(s, p + 1, classPrefix)
    ELSE Sub(s, i, p - 1) \o InlineCodeHtml(Sub(s, p + 1, e - 1), classPrefix)
         \o ReplaceInlineCode(s, e + 1, classPrefix)

ReplaceInlineCode(s, i, classPrefix) ==
    ReplaceInlineCodeAt(s, i, FindSet(s, i, {Tick}),
                        InlineCodeClose(s, FindSet(s, i, {Tick})), classPrefix)

\* the inline pass over what the fenced pass returned
InlineOver(fenced, classPrefix) ==
    [text |-> ReplaceInlineCode(fenced.text, 1, classPrefix),
     codeBlocks |-> fenced.entries]

parseCode(s, o) == InlineOver(ReplaceFenced(s, 1, ClassPrefixOf(o)), ClassPrefixOf(o))

----------------------------------------------------------------------------
(* Lines: ^ and $ under the m flag *)

\* ^ matches at index p
IsLineStart(s, p) == p = 1 \/ (p >= 2 /\ p <= Len(s) + 1 /\ At(s, p - 1) \in LineTerminators)

\* $ matches at index p (before the character at p)
IsLineEnd(s, p) == p = Len(s) + 1 \/ (p >= 1 /\ p <= Len(s) /\ At(s, p) \in LineTerminators)

\* the first index >= i at which ^ matches (beyond Len(s)+1 when none)
NextLineStart(s, i) ==
    IF i <= 1 THEN 1 ELSE FindSet(s, i - 1, LineTerminators) + 1

\* the largest element of a set of positive integers, 0 when it is empty
MaxOf(S) == IF S = {} THEN 0 ELSE CHOOSE x \in S : \A y \in S : y <= x

\* the smallest element of a set of positive integers, 0 when it is empty
MinOf(S) == IF S = {} THEN 0 ELSE CHOOSE x \in S : \A y \in S : x <= y

----------------------------------------------------------------------------
(* parseHeaders, MarkdownCell.tsx:275-297 *)

\* /^(#{1,6})\s+(.+)$/gm tried at index p: the number of "#" of (#{1,6}),
\* 0 when the run is empty, longer than six or not followed by \s
HeaderHashes(s, p) ==
    LET h == SkipSet(s, p, {"#"}) - p
    IN  IF IsLineStart(s, p) /\ h >= 1 /\ h <= 6
           /\ p + h <= Len(s) /\ IsSpace(At(s, p + h))
        THEN h ELSE 0

\* \s+(.+) tried at index w0, where whitespace stands: the index at which
\* (.+) begins.  \s+ is greedy and runs over line ends up to w1; at the end of
\* the text it gives characters back until a character that . matches follows
\* it.  0 when there is none
HeaderContentAfter(s, w0, w1) ==
    IF w1 <= Len(s) THEN w1
    ELSE MaxOf({c \in (w0 + 1)..Len(s) : IsDot(At(s, c))})

\* the index at which (.+) begins in a match at p, 0 when the regex fails at p
HeaderContentStart(s, p) ==
    IF HeaderHashes(s, p) = 0 THEN 0
    ELSE HeaderContentAfter(s, p + HeaderHashes(s, p),
                            SkipSet(s, p + HeaderHashes(s, p), WhiteSpace))

\* the index after a match whose (.+) begins at c: (.+) runs to the end of its line
HeaderEnd(s, c) == FindSet(s, c, LineTerminators)

\* the fragment the callback returns
HeadingHtml(level, cleanContent, id, classPrefix) ==
    "<h" \o At(Digits, level + 1) \o " id=\"" \o id \o "\" class=\"" \o classPrefix
    \o "-h" \o At(Digits, level + 1) \o "\">" \o cleanContent
    \o "</h" \o At(Digits, level + 1) \o ">"

\* what the callback returns and pushes, once id is computed
Heading(level, cleanContent, id, classPrefix) ==
    [html |-> HeadingHtml(level, cleanContent, id, classPrefix),
     entries |-> <<[level |-> level, text |-> cleanContent, id |-> id]>>]

\* the callback (match, hashes, content) => { ... } once content is trimmed
HeaderCallback(level, cleanContent, classPrefix) ==
    Heading(level, cleanContent, generateId(cleanContent), classPrefix)

\* text.replace(headerRegex, callback) from index i on, with the entries the
\* callback pushes
RECURSIVE ReplaceHeaders(_, _, _)

\* the same, the next line start being at p (beyond the text: none) and the
\* (.+) of its match beginning at c (0: the regex fails at p)
ReplaceHeadersAt(s, i, p, c, classPrefix) ==
    IF p > Len(s) THEN NoMore(Sub(s, i, Len(s)))
    ELSE IF c = 0
    THEN Skipped(Sub(s, i, p), ReplaceHeaders(s, p + 1, classPrefix))
    ELSE Replaced(Sub(s, i, p - 1),
                  HeaderCallback(HeaderHashes(s, p),
                                 Trim(Sub(s, c, HeaderEnd(s, c) - 1)), classPrefix),
                  ReplaceHeaders(s, HeaderEnd(s, c), classPrefix))

ReplaceHeaders(s, i, classPrefix) ==
    ReplaceHeadersAt(s, i, NextLineStart(s, i),
                     HeaderContentStart(s, NextLineStart(s, i)), classPrefix)

\* return { text: parsedText, headings }
HeadersOf(replaced) == [text |-> replaced.text, headings |-> replaced.entries]

parseHeaders(s, o) == HeadersOf(ReplaceHeaders(s, 1, ClassPrefixOf(o)))

----------------------------------------------------------------------------
(* parseHorizontalRules, MarkdownCell.tsx:639-648 *)

RuleMarkers == {"-", "*", "_"}

\* /^(\s*)([-*_])\s*\2\s*\2[\s-*_]*$/gm tried at index p: the index of the
\* first marker ([-*_]), after the greedy (\s*), which runs over line ends
RuleFirst(s, p) == SkipSet(s, p, WhiteSpace)

\* the index of the marker \2 that follows the marker at a, 0 when a is 0 or
\* no such marker follows
RuleNext(s, a) ==
    LET b == SkipSet(s, a + 1, WhiteSpace)
    IN  IF a # 0 /\ b <= Len(s) /\ At(s, b) = At(s, a) THEN b ELSE 0

\* the index of the first marker, 0 when the regex fails before it
RuleOpen(s, p) ==
    LET a == RuleFirst(s, p)
    IN  IF IsLineStart(s, p) /\ a <= Len(s) /\ At(s, a) \in RuleMarkers THEN a ELSE 0

\* the index of the third marker, 0 when the regex fails before it
RuleThird(s, p) == RuleNext(s, RuleNext(s, RuleOpen(s, p)))

\* the index after a match whose third marker is at c, 0 when c is 0 or the
\* regex fails: [\s-*_]* is greedy and gives characters back until $ matches
RuleEndAfter(s, c) ==
    IF c = 0 THEN 0
    ELSE MaxOf({e \in (c + 1)..SkipSet(s, c + 1, WhiteSpace \cup RuleMarkers) :
                   IsLineEnd(s, e)})

RuleEnd(s, p) == RuleEndAfter(s, RuleThird(s, p))

\* text.replace(..., `$1<hr class="...-hr">`) from index i on
RECURSIVE ReplaceRules(_, _, _)

\* the same, the next line start being at p (beyond the text: none) and its
\* match ending before e (0: the regex fails at p)
ReplaceRulesAt(s, i, p, e, classPrefix) ==
    IF p > Len(s) THEN Sub(s, i, Len(s))
    ELSE IF e = 0 THEN Sub(s, i, p) \o ReplaceRules(s, p + 1, classPrefix)
    ELSE Sub(s, i, p - 1) \o Sub(s, p, RuleFirst(s, p) - 1)
         \o "<hr class=\"" \o classPrefix \o "-hr\">"
         \o ReplaceRules(s, e, classPrefix)

ReplaceRules(s, i, classPrefix) ==
    ReplaceRulesAt(s, i, NextLineStart(s, i), RuleEnd(s, NextLineStart(s, i)),
                   classPrefix)

parseHorizontalRules(s, o) == ReplaceRules(s, 1, ClassPrefixOf(o))

----------------------------------------------------------------------------
(* split, join, map, filter *)

\* s.split(sep) for a one-character separator, from index i on
RECURSIVE Split(_, _, _)
Split(s, i, sep) ==
    LET n == FindSet(s, i, {sep})
    IN  IF n > Len(s) THEN <<Sub(s, i, Len(s))>>
        ELSE <<Sub(s, i, n - 1)>> \o Split(s, n + 1, sep)

\* parts.join(sep), from part k on
RECURSIVE Join(_, _, _)
Join(parts, k, sep) ==
    IF k > Len(parts) THEN ""
    ELSE IF k = Len(parts) THEN parts[k]
    ELSE parts[k] \o sep \o Join(parts, k + 1, sep)

\* parts.filter((part) => part): the non-empty strings
RECURSIVE NonEmpty(_, _)
NonEmpty(parts, k) ==
    IF k > Len(parts) THEN <<>>
    ELSE (IF parts[k] = "" THEN <<>> ELSE <<parts[k]>>) \o NonEmpty(parts, k + 1)

\* s.includes(c) for a character c
Includes(s, c) == FindSet(s, 1, {c}) <= Len(s)

\* line.split("|").map((cell) => cell.trim()).filter((cell) => cell)
Cells(line) ==
    LET raw == Split(line, 1, "|")
    IN  NonEmpty([k \in 1..Len(raw) |-> Trim(raw[k])], 1)

----------------------------------------------------------------------------
(* parseTables, MarkdownCell.tsx:504-591 *)

\* nextLine.match(/^\s*\|?[\s:|-]+\|?[\s:|-]*$/): every part of the pattern
\* matches characters of [\s:|-] only and one of them is needed
IsSeparatorRow(line) ==
    line # "" /\ SkipSet(line, 1, WhiteSpace \cup {":", "|", "-"}) > Len(line)

\* the map callback over the cells of the separator row
Alignment(cell) ==
    LET trimmed == Trim(cell)
    IN  IF LitAt(trimmed, 1, ":") /\ LitAt(trimmed, Len(trimmed), ":") THEN "center"
        ELSE IF LitAt(trimmed, Len(trimmed), ":") THEN "right"
        ELSE "left"

\* nextLine.split("|").map(...).filter((_, index) => index < headerCells.length)
Alignments(nextLine, headerCells) ==
    LET raw == Split(nextLine, 1, "|")
        n == IF Len(raw) < Len(headerCells) THEN Len(raw) ELSE Len(headerCells)
    IN  [k \in 1..n |-> Alignment(raw[k])]

\* align !== "left" ? ` ${classPrefix}-align-${align}` : "", with
\* align = alignments[index] || "left"
AlignClass(alignments, k, classPrefix) ==
    IF k <= Len(alignments) /\ alignments[k] # "left"
    THEN " " \o classPrefix \o "-align-" \o alignments[k]
    ELSE ""

\* the <th> or <td> elements of one row, from cell k on
RECURSIVE CellsHtml(_, _, _, _, _)
CellsHtml(cells, k, alignments, tag, classPrefix) ==
    IF k > Len(cells) THEN ""
    ELSE "<" \o tag \o " class=\"" \o classPrefix
         \o (IF tag = "th" THEN "-table-header" ELSE "-table-cell")
         \o AlignClass(alignments, k, classPrefix) \o "\">" \o cells[k]
         \o "</" \o tag \o ">"
         \o CellsHtml(cells, k + 1, alignments, tag, classPrefix)

\* the row loop left after its first row
TableRowsEndAfterOneRow(lines, i) ==
    IF i <= Len(lines) /\ lines[i] # "" /\ Includes(lines[i], "|") THEN i + 1 ELSE i

\* the value of i when the row loop ends: the first line from i on that is
\* empty or has no "|"
RECURSIVE TableRowsEnd(_, _)
TableRowsEnd(lines, i) ==
    IF i <= Len(lines) /\ lines[i] # "" /\ Includes(lines[i], "|")
    THEN TableRowsEnd(lines, i + 1) ELSE i

\* the <tr> elements the row loop appends for lines i..j-1
RECURSIVE RowsHtml(_, _, _, _, _)
RowsHtml(lines, i, j, alignments, classPrefix) ==
    IF i >= j THEN ""
    ELSE (IF Len(Cells(lines[i])) > 0
          THEN "<tr class=\"" \o classPrefix \o "-table-row\">"
               \o CellsHtml(Cells(lines[i]), 1, alignments, "td", classPrefix)
               \o "</tr>"
          ELSE "")
         \o RowsHtml(lines, i + 1, j, alignments, classPrefix)

\* the if of the outer loop: lines[i] is a header row and lines[i+1] a separator
IsTableHeader(lines, i) ==
    /\ lines[i] # ""
    /\ i + 1 <= Len(lines)
    /\ lines[i + 1] # ""
    /\ Includes(lines[i], "|")
    /\ IsSeparatorRow(lines[i + 1])

TableHtml(lines, i, classPrefix) ==
    LET headerCells == Cells(lines[i])
        alignments == Alignments(lines[i + 1], headerCells)
    IN  "<table class=\"" \o classPrefix \o "-table\">"
        \o "<thead class=\"" \o classPrefix \o "-table-head\"><tr class=\""
        \o classPrefix \o "-table-row\">"
        \o CellsHtml(headerCells, 1, alignments, "th", classPrefix)
        \o "</tr></thead><tbody class=\"" \o classPrefix \o "-table-body\">"
        \o RowsHtml(lines, i + 2, TableRowsEnd(lines, i + 2), alignments, classPrefix)
        \o "</tbody></table>"

\* the outer loop from line i on: the lines pushed to result
RECURSIVE TableLines(_, _, _)
TableLines(lines, i, classPrefix) ==
    IF i > Len(lines) THEN <<>>
    ELSE IF IsTableHeader(lines, i)
    THEN <<TableHtml(lines, i, classPrefix)>>
         \o TableLines(lines, TableRowsEnd(lines, i + 2), classPrefix)
    ELSE <<lines[i]>> \o TableLines(lines, i + 1, classPrefix)

\* the stage without its gfm test
parseTablesAlways(s, o) ==
    Join(TableLines(Split(s, 1, "\n"), 1, ClassPrefixOf(o)), 1, "\n")

parseTables(s, o) ==
    IF ~o.gfm THEN s
    ELSE Join(TableLines(Split(s, 1, "\n"), 1, ClassPrefixOf(o)), 1, "\n")

----------------------------------------------------------------------------
(* parseBlockquotes, MarkdownCell.tsx:596-634 *)

\* the condition of the inner loop on line i
InQuoteRun(lines, i) ==
    /\ i <= Len(lines)
    /\ lines[i] # ""
    /\ (LitAt(lines[i], 1, ">") \/ Trim(lines[i]) = "")

RECURSIVE QuoteRunEnd(_, _)

\* an inner loop that asks for "> " where the outer test asks for ">"
QuoteRunEndSpaced(lines, i) ==
    IF i <= Len(lines) /\ LitAt(lines[i], 1, "> ") THEN i + 1 ELSE i

QuoteRunEnd(lines, i) ==
    IF InQuoteRun(lines, i) THEN QuoteRunEnd(lines, i + 1) ELSE i

\* quoteLines for lines i..j-1
QuoteLines(lines, i, j) ==
    [k \in 1..(j - i) |->
        IF LitAt(lines[i + k - 1], 1, ">")
        THEN Trim(Sub(lines[i + k - 1], 2, Len(lines[i + k - 1])))
        ELSE ""]

\* the element pushed for the run that begins at line i
QuoteHtml(lines, i, classPrefix) ==
    "<blockquote class=\"" \o classPrefix \o "-blockquote\">"
    \o Trim(Join(QuoteLines(lines, i, QuoteRunEnd(lines, i)), 1, "\n"))
    \o "</blockquote>"

RECURSIVE QuoteLinesOut(_, _, _)
QuoteLinesOut(lines, i, classPrefix) ==
    IF i > Len(lines) THEN <<>>
    ELSE IF lines[i] # "" /\ LitAt(lines[i], 1, ">")
    THEN <<QuoteHtml(lines, i, classPrefix)>>
         \o QuoteLinesOut(lines, QuoteRunEnd(lines, i), classPrefix)
    ELSE <<lines[i]>> \o QuoteLinesOut(lines, i + 1, classPrefix)

parseBlockquotes(s, o) ==
    Join(QuoteLinesOut(Split(s, 1, "\n"), 1, ClassPrefixOf(o)), 1, "\n")

----------------------------------------------------------------------------
(* parseLists, MarkdownCell.tsx:420-499 *)

BulletMarkers == {"-", "*", "+"}

\* /^\s*[-*+]\s+/.test(line)
IsBullet(line) ==
    LET a == SkipSet(line, 1, WhiteSpace)
    IN  /\ a <= Len(line) /\ At(line, a) \in BulletMarkers
        /\ a + 1 <= Len(line) /\ IsSpace(At(line, a + 1))

\* /^\s*\d+\.\s+/.test(line)
IsNumbered(line) ==
    LET a == SkipSet(line, 1, WhiteSpace)
        d == SkipSet(line, a, CharsOf(Digits))
    IN  /\ d > a
        /\ d <= Len(line) /\ At(line, d) = "."
        /\ d + 1 <= Len(line) /\ IsSpace(At(line, d + 1))

\* itemMatch[1] of line.match(/^\s*[-*+]\s+(.*)$/) or of the ordered pattern,
\* "" when there is no match: the text after the whitespace that follows the
\* marker, which (.*)$ matches only if no line terminator is left in it
ItemText(line, ordered) ==
    LET a == SkipSet(line, 1, WhiteSpace)
        m == IF ordered THEN SkipSet(line, a, CharsOf(Digits)) ELSE a
        b == SkipSet(line, m + 1, WhiteSpace)
    IN  IF FindSet(line, b, LineTerminators) <= Len(line) THEN ""
        ELSE Sub(line, b, Len(line))

IsItem(line, ordered) == IF ordered THEN IsNumbered(line) ELSE IsBullet(line)

RECURSIVE ListRunEnd(_, _, _)
ListRunEnd(lines, i, ordered) ==
    IF i <= Len(lines) /\ lines[i] # "" /\ IsItem(lines[i], ordered)
    THEN ListRunEnd(lines, i + 1, ordered) ELSE i

\* listItems.join("") for lines i..j-1: an item whose text is empty is not pushed
RECURSIVE ItemsHtml(_, _, _, _, _)
ItemsHtml(lines, i, j, ordered, classPrefix) ==
    IF i >= j THEN ""
    ELSE (IF ItemText(lines[i], ordered) # ""
          THEN "<li class=\"" \o classPrefix \o "-list-item\">"
               \o ItemText(lines[i], ordered) \o "</li>"
          ELSE "")
         \o ItemsHtml(lines, i + 1, j, ordered, classPrefix)

ListHtml(lines, i, ordered, classPrefix) ==
    LET tag == IF ordered THEN "ol" ELSE "ul"
    IN  "<" \o tag \o " class=\"" \o classPrefix \o "-list " \o classPrefix
        \o (IF ordered THEN "-ordered-list" ELSE "-unordered-list") \o "\">"
        \o ItemsHtml(lines, i, ListRunEnd(lines, i, ordered), ordered, classPrefix)
        \o "</" \o tag \o ">"

RECURSIVE ListLines(_, _, _)
ListLines(lines, i, classPrefix) ==
    IF i > Len(lines) THEN <<>>
    ELSE IF lines[i] = "" THEN <<"">> \o ListLines(lines, i + 1, classPrefix)
    ELSE IF IsBullet(lines[i])
    THEN <<ListHtml(lines, i, FALSE, classPrefix)>>
         \o ListLines(lines, ListRunEnd(lines, i, FALSE), classPrefix)
    ELSE IF IsNumbered(lines[i])
    THEN <<ListHtml(lines, i, TRUE, classPrefix)>>
         \o ListLines(lines, ListRunEnd(lines, i, TRUE), classPrefix)
    ELSE <<lines[i]>> \o ListLines(lines, i + 1, classPrefix)

parseLists(s, o) ==
    Join(ListLines(Split(s, 1, "\n"), 1, ClassPrefixOf(o)), 1, "\n")

----------------------------------------------------------------------------
(* parseLinksAndImages, MarkdownCell.tsx:375-415 *)

\* (?:\s+"([^"]+)")?\) with the title present, tried at index t, the
\* whitespace \s+ ending before index w: the index of the closing quote, 0
\* when it fails
TitleCloseAfter(s, t, w, e) ==
    IF /\ w > t /\ LitAt(s, w, "\"")
       /\ e > w + 1 /\ e <= Len(s)
       /\ LitAt(s, e + 1, ")")
    THEN e ELSE 0

TitleClose(s, t) ==
    TitleCloseAfter(s, t, SkipSet(s, t, WhiteSpace),
                    FindSet(s, SkipSet(s, t, WhiteSpace) + 1, {"\""}))

\* ([^)]+?)(?:\s+"([^"]+)")?\) tried at index q (after the "("): the index
\* after the lazy ([^)]+?), which grows until the rest matches; 0 when the
\* pattern fails
TargetEnd(s, q) ==
    MinOf({t \in (q + 1)..FindSet(s, q, {")"}) :
              t <= Len(s) /\ (LitAt(s, t, ")") \/ TitleClose(s, t) # 0)})

\* the third capture of a target whose ([^)]+?) ends before t and whose title
\* closes at k: undefined when the title group did not take part (k = 0)
TargetTitle(s, t, k) ==
    IF k = 0 THEN Undefined ELSE Some(Sub(s, SkipSet(s, t, WhiteSpace) + 1, k - 1))

\* the index after the closing ")" of that target
TargetAfter(t, k) == IF k = 0 THEN t + 1 ELSE k + 2

\* /!\[([^\]]*)\]\(/ tried at index p: the index of the "]", 0 when it fails
ImageBracket(s, p) ==
    LET b == FindSet(s, p + 2, {"]"})
    IN  IF LitAt(s, p, "![") /\ LitAt(s, b, "](") THEN b ELSE 0

\* /\[([^\]]+)\]\(/ tried at index p: the index of the "]", 0 when it fails
LinkBracket(s, p) ==
    LET b == FindSet(s, p + 1, {"]"})
    IN  IF LitAt(s, p, "[") /\ b > p + 1 /\ LitAt(s, b, "](") THEN b ELSE 0

\* the index after ([^)]+?) of a match whose "]" is at b, 0 when b is 0 or
\* the regex fails
TargetOf(s, b) == IF b = 0 THEN 0 ELSE TargetEnd(s, b + 2)

\* const titleAttr = title ? ` title="${escapeHtml(title)}"` : ""
TitleAttr(title) ==
    IF title # Undefined /\ title # Some("")
    THEN " title=\"" \o escapeHtml(title[1]) \o "\"" ELSE ""

\* the image callback (match, alt, src, title) => { ... }
ImageCallback(alt, src, title, classPrefix) ==
    [html |-> "<img src=\"" \o escapeHtml(src) \o "\" alt=\"" \o escapeHtml(alt)
              \o "\" class=\"" \o classPrefix \o "-image\"" \o TitleAttr(title) \o ">",
     entries |-> <<[alt |-> alt, src |-> src, title |-> title]>>]

\* the link callback (match, linkText, url, title) => { ... }
LinkCallback(linkText, url, title, classPrefix, targetAttr) ==
    [html |-> "<a href=\"" \o escapeHtml(url) \o "\" class=\"" \o classPrefix
              \o "-link\"" \o TitleAttr(title) \o targetAttr \o ">" \o linkText
              \o "</a>",
     entries |-> <<[text |-> linkText, url |-> url, title |-> title]>>]

\* text.replace(image regex, callback) from index i on, with the entries pushed
RECURSIVE ReplaceImages(_, _, _)

\* the same for a match at p whose "]" is at b, whose ([^)]+?) ends before t
\* and whose title closes at k (0: no title)
ReplaceImageMatch(s, i, p, b, t, k, classPrefix) ==
    Replaced(Sub(s, i, p - 1),
             ImageCallback(Sub(s, p + 2, b - 1), Sub(s, b + 2, t - 1),
                           TargetTitle(s, t, k), classPrefix),
             ReplaceImages(s, TargetAfter(t, k), classPrefix))

\* the same, the next "!" being at p (beyond the text: none), its "]" at b
\* and its ([^)]+?) ending before t (0: the regex fails at p)
ReplaceImagesAt(s, i, p, b, t, classPrefix) ==
    IF p > Len(s) THEN NoMore(Sub(s, i, Len(s)))
    ELSE IF t = 0
    THEN Skipped(Sub(s, i, p), ReplaceImages(s, p + 1, classPrefix))
    ELSE ReplaceImageMatch(s, i, p, b, t, TitleClose(s, t), classPrefix)

ReplaceImages(s, i, classPrefix) ==
    ReplaceImagesAt(s, i, FindSet(s, i, {"!"}),
                    ImageBracket(s, FindSet(s, i, {"!"})),
                    TargetOf(s, ImageBracket(s, FindSet(s, i, {"!"}))), classPrefix)

\* parsedText.replace(link regex, callback) from index i on, with the entries pushed
RECURSIVE ReplaceLinks(_, _, _, _)

ReplaceLinkMatch(s, i, p, b, t, k, classPrefix, targetAttr) ==
    Replaced(Sub(s, i, p - 1),
             LinkCallback(Sub(s, p + 1, b - 1), Sub(s, b + 2, t - 1),
                          TargetTitle(s, t, k), classPrefix, targetAttr),
             ReplaceLinks(s, TargetAfter(t, k), classPrefix, targetAttr))

ReplaceLinksAt(s, i, p, b, t, classPrefix, targetAttr) ==
    IF p > Len(s) THEN NoMore(Sub(s, i, Len(s)))
    ELSE IF t = 0
    THEN Skipped(Sub(s, i, p), ReplaceLinks(s, p + 1, classPrefix, targetAttr))
    ELSE ReplaceLinkMatch(s, i, p, b, t, TitleClose(s, t), classPrefix, targetAttr)

ReplaceLinks(s, i, classPrefix, targetAttr) ==
    ReplaceLinksAt(s, i, FindSet(s, i, {"["}),
                   LinkBracket(s, FindSet(s, i, {"["})),
                   TargetOf(s, LinkBracket(s, FindSet(s, i, {"["}))),
                   classPrefix, targetAttr)

\* return { text: parsedText, links, images }
LinksOver(imaged, linked) ==
    [text |-> linked.text, links |-> linked.entries, images |-> imaged.entries]

\* the link pass over what the image pass returned
LinksAfterImages(imaged, classPrefix, targetAttr) ==
    LinksOver(imaged, ReplaceLinks(imaged.text, 1, classPrefix, targetAttr))

parseLinksAndImages(s, o) ==
    LinksAfterImages(ReplaceImages(s, 1, ClassPrefixOf(o)), ClassPrefixOf(o),
                     IF o.linksInNewTab
                     THEN " target=\"_blank\" rel=\"noopener noreferrer\"" ELSE "")

----------------------------------------------------------------------------
(* parseTextFormatting, MarkdownCell.tsx:302-337 *)

\* /D(.*?)D/ for a literal delimiter D, tried at index p, the next D after
\* the opening one being at k (0: none): the index of the closing delimiter,
\* 0 when the regex fails at p.  (.*?) grows until D follows and does not run
\* over a line end
DelimiterCloseAt(s, p, D, k) ==
    IF k # 0 /\ FindSet(s, p + Len(D), LineTerminators) >= k THEN k ELSE 0

DelimiterClose(s, p, D) ==
    IF p = 0 THEN 0 ELSE DelimiterCloseAt(s, p, D, IndexOf(s, p + Len(D), D))

\* s.replace(/D(.*?)D/g, open $1 close) from index i on
RECURSIVE ReplaceDelimited(_, _, _, _, _)

\* the same, the next D being at p (0: none) and closing at k (0: the regex
\* fails at p)
ReplaceDelimitedAt(s, i, D, p, k, open, close) ==
    IF p = 0 THEN Sub(s, i, Len(s))
    ELSE IF k = 0 THEN Sub(s, i, p) \o ReplaceDelimited(s, p + 1, D, open, close)
    ELSE Sub(s, i, p - 1) \o open \o Sub(s, p + Len(D), k - 1) \o close
         \o ReplaceDelimited(s, k + Len(D), D, open, close)

ReplaceDelimited(s, i, D, open, close) ==
    ReplaceDelimitedAt(s, i, D, IndexOf(s, i, D),
                       DelimiterClose(s, IndexOf(s, i, D), D), open, close)

\* the seven replacements, given the three opening tags
FormatWith(s, del, strong, em) ==
    LET s1 == ReplaceDelimited(s, 1, "~~", del, "</del>")
        s2 == ReplaceDelimited(s1, 1, "***", strong \o em, "</em></strong>")
        s3 == ReplaceDelimited(s2, 1, "___", strong \o em, "</em></strong>")
        s4 == ReplaceDelimited(s3, 1, "**", strong, "</strong>")
        s5 == ReplaceDelimited(s4, 1, "__", strong, "</strong>")
        s6 == ReplaceDelimited(s5, 1, "*", em, "</em>")
    IN  ReplaceDelimited(s6, 1, "_", em, "</em>")

parseTextFormatting(s, o) ==
    FormatWith(s, "<del class=\"" \o ClassPrefixOf(o) \o "-strikethrough\">",
               "<strong class=\"" \o ClassPrefixOf(o) \o "-bold\">",
               "<em class=\"" \o ClassPrefixOf(o) \o "-italic\">")

----------------------------------------------------------------------------
(* parseParagraphs, MarkdownCell.tsx:653-676 *)

\* /\n\s*\n/ tried at index p: the index of its last "\n", 0 when it fails.
\* \s* is greedy and gives characters back until a "\n" follows
BlankEnd(s, p) ==
    LET w == SkipSet(s, p + 1, WhiteSpace)
        N == {j \in (p + 1)..(w - 1) : At(s, j) = "\n"}
    IN  IF At(s, p) # "\n" THEN 0 ELSE MaxOf(N)

\* text.split(/\n\s*\n/): the blocks, the current one beginning at index b,
\* the search for the next separator at index i
RECURSIVE SplitBlocks(_, _, _)
SplitBlocks(s, b, i) ==
    LET p == FindSet(s, i, {"\n"})
    IN  IF p > Len(s) THEN <<Sub(s, b, Len(s))>>
        ELSE IF BlankEnd(s, p) = 0 THEN SplitBlocks(s, b, p + 1)
        ELSE <<Sub(s, b, p - 1)>>
             \o SplitBlocks(s, BlankEnd(s, p) + 1, BlankEnd(s, p) + 1)

BlockTags ==
    {"<h1", "<h2", "<h3", "<h4", "<h5", "<h6", "<ul", "<ol", "<table",
     "<blockquote", "<pre", "<hr", "<div"}

\* the test with hr left out of the alternation
IsBlockElementNoRule(trimmed) ==
    \E tag \in BlockTags \ {"<hr"} : LitAt(trimmed, 1, tag)

\* trimmed.match(/^<(h[1-6]|ul|ol|table|blockquote|pre|hr|div)/)
IsBlockElement(trimmed) == \E tag \in BlockTags : LitAt(trimmed, 1, tag)

\* the map callback without its "if (!trimmed) return ''"
ParagraphOfUnchecked(block, classPrefix) ==
    IF IsBlockElement(Trim(block)) THEN Trim(block)
    ELSE "<p class=\"" \o classPrefix \o "-paragraph\">"
         \o Join(Split(Trim(block), 1, "\n"), 1, "<br>") \o "</p>"

\* the map callback
ParagraphOf(block, classPrefix) ==
    LET trimmed == Trim(block)
    IN  IF trimmed = "" THEN ""
        ELSE IF IsBlockElement(trimmed) THEN trimmed
        ELSE "<p class=\"" \o classPrefix \o "-paragraph\">"
             \o Join(Split(trimmed, 1, "\n"), 1, "<br>") \o "</p>"

\* the stage made to depend on sanitize: the text is left as it is when the
\* caller turns sanitize off
parseParagraphsUnlessRaw(s, o) ==
    IF ~o.sanitize THEN s
    ELSE Join(NonEmpty([k \in 1..Len(SplitBlocks(s, 1, 1)) |->
                           ParagraphOf(SplitBlocks(s, 1, 1)[k], ClassPrefixOf(o))], 1),
              1, "\n\n")

parseParagraphs(s, o) ==
    LET blocks == SplitBlocks(s, 1, 1)
        mapped == [k \in 1..Len(blocks) |-> ParagraphOf(blocks[k], ClassPrefixOf(o))]
    IN  Join(NonEmpty(mapped, 1), 1, "\n\n")

----------------------------------------------------------------------------
(* Bounded inputs *)

\* all concatenations of at most n of the pieces in T
RECURSIVE Concats(_, _)
Concats(T, n) ==
    IF n = 0 THEN {""}
    ELSE LET P == Concats(T, n - 1) IN P \cup {p \o t : p \in P, t \in T}

MaxUtilLen == 3

UtilAlphabet == {"H", "e", "7", "_", "-", " ", "\n", ",", "&", "<", ">", "\"", "'"}

UtilStrings == Concats(UtilAlphabet, MaxUtilLen) \cup {"Hello, World!"}

----------------------------------------------------------------------------
(* parseMarkdown, MarkdownCell.tsx:681-742 *)

\* const metadata = { headings: [], links: [], images: [], codeBlocks: [] }
NoMetadata == [headings |-> <<>>, links |-> <<>>, images |-> <<>>, codeBlocks |-> <<>>]

\* no line loop in progress (a loop in progress has one line at least, as
\* split returns one string at least)
NoLoop == [lines |-> <<>>, i |-> 0, result |-> <<>>, iterations |-> 0]

\* the statements in another order: the emphasis stage placed before the
\* link stage
NextStageEmphasisFirst(stage) ==
    CASE stage = "parseCode" -> "parseHeaders"
      [] stage = "parseHeaders" -> "parseHorizontalRules"
      [] stage = "parseHorizontalRules" -> "parseTables"
      [] stage = "parseTables" -> "parseBlockquotes"
      [] stage = "parseBlockquotes" -> "parseLists"
      [] stage = "parseLists" -> "parseTextFormatting"
      [] stage = "parseTextFormatting" -> "parseLinksAndImages"
      [] stage = "parseLinksAndImages" -> "parseParagraphs"
      [] stage = "parseParagraphs" -> "return"

\* the statements of parseMarkdown in program order: the stage that follows
\* each stage, and the return that follows the last
NextStage(stage) ==
    CASE stage = "parseCode" -> "parseHeaders"
      [] stage = "parseHeaders" -> "parseHorizontalRules"
      [] stage = "parseHorizontalRules" -> "parseTables"
      [] stage = "parseTables" -> "parseBlockquotes"
      [] stage = "parseBlockquotes" -> "parseLists"
      [] stage = "parseLists" -> "parseLinksAndImages"
      [] stage = "parseLinksAndImages" -> "parseTextFormatting"
      [] stage = "parseTextFormatting" -> "parseParagraphs"
      [] stage = "parseParagraphs" -> "return"

\* the exported functions that run the parser
ParserFunctions == {"parseMarkdown", "markdownToHtml", "extractTableOfContents",
                    "extractLinks", "extractImages", "extractCodeBlocks"}

\* the options a call f(m, o) passes to parseMarkdown: the extract functions
\* take no options and pass { sanitize: false }
OptionsPassed(f, o) ==
    IF f \in {"parseMarkdown", "markdownToHtml"} THEN o ELSE [sanitize |-> FALSE]

\* what f returns of the result of its parseMarkdown call
ReturnValue(f, result) ==
    CASE f = "parseMarkdown" -> result
      [] f = "markdownToHtml" -> result.html
      [] f = "extractTableOfContents" -> result.metadata.headings
      [] f = "extractLinks" -> result.metadata.links
      [] f = "extractImages" -> result.metadata.images
      [] f = "extractCodeBlocks" -> result.metadata.codeBlocks

\* a call f(m, o) whose parseMarkdown call has merged its options and set up
\* text and metadata (lines 685-700)
CalledAs(f, m, o) ==
    /\ fn = f
    /\ markdown = m
    /\ options = OptionsPassed(f, o)
    /\ opts = MergeOptions(OptionsPassed(f, o))
    /\ text = m
    /\ metadata = NoMetadata
    /\ stages = <<>>
    /\ pc = "parseCode"
    /\ arg = ""
    /\ loop = NoLoop
    /\ ret = <<>>

\* a call parseMarkdown(markdown, options) that has merged its options and
\* set up text and metadata (lines 685-700)
Called(m, o) ==
    /\ fn = "parseMarkdown"
    /\ markdown = m
    /\ options = o
    /\ opts = MergeOptions(o)
    /\ text = m
    /\ metadata = NoMetadata
    /\ stages = <<>>
    /\ pc = "parseCode"
    /\ arg = ""
    /\ loop = NoLoop
    /\ ret = <<>>

\* text = <stage>(text, opts), recorded in the history
Ran(stage, produced) ==
    /\ text' = produced
    /\ stages' = Append(stages, [stage |-> stage, received |-> text, produced |-> produced])
    /\ pc' = NextStage(stage)
    /\ UNCHANGED <<fn, markdown, options, opts, arg, loop, ret>>

\* 1. Code blocks
ParseCode ==
    /\ pc = "parseCode"
    /\ \E codeResult \in {parseCode(text, opts)} :
           /\ Ran("parseCode", codeResult.text)
           /\ metadata' = [metadata EXCEPT !.codeBlocks = codeResult.codeBlocks]

\* 2. Headers
ParseHeaders ==
    /\ pc = "parseHeaders"
    /\ \E headerResult \in {parseHeaders(text, opts)} :
           /\ Ran("parseHeaders", headerResult.text)
           /\ metadata' = [metadata EXCEPT !.headings = headerResult.headings]

\* 3. Horizontal rules
ParseHorizontalRules ==
    /\ pc = "parseHorizontalRules"
    /\ Ran("parseHorizontalRules", parseHorizontalRules(text, opts))
    /\ UNCHANGED metadata

\* 4. Tables (GFM)
ParseTables ==
    /\ pc = "parseTables"
    /\ Ran("parseTables", parseTables(text, opts))
    /\ UNCHANGED metadata

\* 5. Blockquotes
ParseBlockquotes ==
    /\ pc = "parseBlockquotes"
    /\ Ran("parseBlockquotes", parseBlockquotes(text, opts))
    /\ UNCHANGED metadata

\* 6. Lists
ParseLists ==
    /\ pc = "parseLists"
    /\ Ran("parseLists", parseLists(text, opts))
    /\ UNCHANGED metadata

\* 7. Links and images
ParseLinksAndImages ==
    /\ pc = "parseLinksAndImages"
    /\ \E linkResult \in {parseLinksAndImages(text, opts)} :
           /\ Ran("parseLinksAndImages", linkResult.text)
           /\ metadata' = [metadata EXCEPT !.links = linkResult.links,
                                           !.images = linkResult.images]

\* 8. Text formatting
ParseTextFormatting ==
    /\ pc = "parseTextFormatting"
    /\ Ran("parseTextFormatting", parseTextFormatting(text, opts))
    /\ UNCHANGED metadata

\* 9. Paragraphs and line breaks
ParseParagraphs ==
    /\ pc = "parseParagraphs"
    /\ Ran("parseParagraphs", parseParagraphs(text, opts))
    /\ UNCHANGED metadata

\* return { html: text, metadata }, of which the function called returns its part
Return ==
    /\ pc = "return"
    /\ ret' = Append(ret, ReturnValue(fn, [html |-> text, metadata |-> metadata]))
    /\ pc' = "done"
    /\ UNCHANGED <<fn, markdown, options, opts, text, metadata, stages, arg, loop>>

Next ==
    \/ ParseCode
    \/ ParseHeaders
    \/ ParseHorizontalRules
    \/ ParseTables
    \/ ParseBlockquotes
    \/ ParseLists
    \/ ParseLinksAndImages
    \/ ParseTextFormatting
    \/ ParseParagraphs
    \/ Return

(* The line loops of parseTables, parseBlockquotes and parseLists, one outer
   iteration a step.  loop.i is the index of the current line counted from 1
   (the code's i + 1) *)

LoopStages == {"parseTables", "parseBlockquotes", "parseLists"}

\* if (!options.gfm) return text
ReturnUnlessGfm ==
    /\ pc = "parseTables"
    /\ ~opts.gfm
    /\ Ran("parseTables", text)
    /\ UNCHANGED metadata

\* const lines = text.split("\n"); const result = []; let i = 0
EnterLoop ==
    \E stage \in LoopStages :
        /\ pc = stage
        /\ loop = NoLoop
        /\ stage = "parseTables" => opts.gfm
        /\ loop' = [lines |-> Split(text, 1, "\n"), i |-> 1, result |-> <<>>,
                    iterations |-> 0]
        /\ UNCHANGED <<fn, pc, markdown, options, opts, text, metadata, stages, arg, ret>>

\* one iteration of the outer loop has pushed pushed and left i at next
Iterated(stage, pushed, next) ==
    /\ pc = stage
    /\ loop' = [loop EXCEPT !.result = Append(@, pushed), !.i = next,
                            !.iterations = @ + 1]
    /\ UNCHANGED <<fn, pc, markdown, options, opts, text, metadata, stages, arg, ret>>

\* while (i < lines.length) of parseTables: a table with its rows, or the line
IterateTables ==
    /\ pc = "parseTables"
    /\ loop # NoLoop
    /\ loop.i <= Len(loop.lines)
    /\ IF IsTableHeader(loop.lines, loop.i)
       THEN Iterated("parseTables", TableHtml(loop.lines, loop.i, ClassPrefixOf(opts)),
                     TableRowsEnd(loop.lines, loop.i + 2))
       ELSE Iterated("parseTables", loop.lines[loop.i], loop.i + 1)

\* while (i < lines.length) of parseBlockquotes: a run of quote lines, or the line
IterateBlockquotes ==
    /\ pc = "parseBlockquotes"
    /\ loop # NoLoop
    /\ loop.i <= Len(loop.lines)
    /\ IF loop.lines[loop.i] # "" /\ LitAt(loop.lines[loop.i], 1, ">")
       THEN Iterated("parseBlockquotes", QuoteHtml(loop.lines, loop.i, ClassPrefixOf(opts)),
                     QuoteRunEnd(loop.lines, loop.i))
       ELSE Iterated("parseBlockquotes", loop.lines[loop.i], loop.i + 1)

\* while (i < lines.length) of parseLists: an empty line, a run of bullet
\* lines, a run of numbered lines, or the line
IterateLists ==
    /\ pc = "parseLists"
    /\ loop # NoLoop
    /\ loop.i <= Len(loop.lines)
    /\ IF loop.lines[loop.i] = ""
       THEN Iterated("parseLists", "", loop.i + 1)
       ELSE IF IsBullet(loop.lines[loop.i])
       THEN Iterated("parseLists", ListHtml(loop.lines, loop.i, FALSE, ClassPrefixOf(opts)),
                     ListRunEnd(loop.lines, loop.i, FALSE))
       ELSE IF IsNumbered(loop.lines[loop.i])
       THEN Iterated("parseLists", ListHtml(loop.lines, loop.i, TRUE, ClassPrefixOf(opts)),
                     ListRunEnd(loop.lines, loop.i, TRUE))
       ELSE Iterated("parseLists", loop.lines[loop.i], loop.i + 1)

\* return result.join("\n"), assigned to text by parseMarkdown
ExitLoop ==
    \E stage \in LoopStages :
        /\ pc = stage
        /\ loop # NoLoop
        /\ loop.i > Len(loop.lines)
        /\ text' = Join(loop.result, 1, "\n")
        /\ stages' = Append(stages, [stage |-> stage, received |-> text,
                                     produced |-> Join(loop.result, 1, "\n")])
        /\ pc' = NextStage(stage)
        /\ loop' = NoLoop
        /\ UNCHANGED <<fn, markdown, options, opts, metadata, arg, ret>>

NextLoops ==
    \/ ParseCode
    \/ ParseHeaders
    \/ ParseHorizontalRules
    \/ ReturnUnlessGfm
    \/ EnterLoop
    \/ IterateTables
    \/ IterateBlockquotes
    \/ IterateLists
    \/ ExitLoop
    \/ ParseLinksAndImages
    \/ ParseTextFormatting
    \/ ParseParagraphs
    \/ Return

(* The documents and options of the checked calls *)

\* the texts made of at most n lines of L, joined by "\n"
RECURSIVE LinesOf(_, _)
LinesOf(L, n) ==
    IF n = 0 THEN {""}
    ELSE LET P == LinesOf(L, n - 1) IN P \cup L \cup {p \o "\n" \o l : p \in P \ {""}, l \in L}

MaxTokens == 3

\* markup characters alone and in pairs: unmatched openers, a heading, a
\* list item, a link or image target
DocTokens == {"a", "\n", "# ", Tick, "[a", "](u)", "*", "- ", "!"}

Docs == Concats(DocTokens, MaxTokens)

\* what a caller passes as options: nothing, or some of the fields
OptionChoices ==
    {<<>>,
     [linksInNewTab |-> FALSE, gfm |-> FALSE],
     [classPrefix |-> "doc", sanitize |-> FALSE]}

Init == \E m \in Docs, o \in OptionChoices : Called(m, o)

Spec == Init /\ [][Next]_vars

(* Documents with code: fences with and without a language tag, inline
   spans, and bodies holding a heading line, markup characters, emphasis
   and a link *)

MaxCodeTokens == 4

CodeTokens ==
    {Fence, Fence \o "js\n", Tick, "\n", "a\n# h", "<*b*", "[a](u)"}

CodeDocs == Concats(CodeTokens, MaxCodeTokens)

InitCode == \E m \in CodeDocs : Called(m, <<>>)

SpecCode == InitCode /\ [][Next]_vars

(* Documents of heading lines: one to seven "#", with and without text, with
   the text of another heading, indented, and plain lines between them *)

MaxHeadLines == 3

HeadLines ==
    {"# a", "## b", "###### c", "####### d", "#", "## ", "#a", "a", "",
     " # a", "#  A b ", "### a"}

HeadDocs == LinesOf(HeadLines, MaxHeadLines)

InitHead == \E m \in HeadDocs : Called(m, <<>>)

SpecHead == InitHead /\ [][Next]_vars

(* Documents of links and images: an image opener, a link opener, targets
   without and with a title, an underscore, and text around them; called
   with links opening in a new tab and without *)

MaxLinkTokens == 4

LinkTokens == {"![", "[a", "](u)", "](v \"t\")", "_", " ", "\n"}

LinkDocs == Concats(LinkTokens, MaxLinkTokens)

LinkOptions == {<<>>, [linksInNewTab |-> FALSE]}

InitLink == \E m \in LinkDocs, o \in LinkOptions : Called(m, o)

SpecLink == InitLink /\ [][Next]_vars

(* Documents of table lines: header rows, separator rows and body rows with
   and without the outer pipes, and a plain line; called with gfm on and off *)

MaxTableLines == 3

TableLineChoices ==
    {"| A | B |", "A | B", "| :--- | ---: |", ":---: | ---", "--- | ---:",
     "| 1 | 2 |", "1 | 2", "x"}

TableDocs == LinesOf(TableLineChoices, MaxTableLines)

TableOptions == {<<>>, [gfm |-> FALSE]}

InitTable == \E m \in TableDocs, o \in TableOptions : Called(m, o)

SpecTable == InitTable /\ [][Next]_vars

(* Documents of blocks: quote lines, empty and whitespace-only lines, text
   lines, a heading, a list item and a rule, with and without blank lines
   between them *)

MaxBlockLines == 3

BlockLineChoices == {"> a", "> b", "", " ", "x", "# h", "- i", "---"}

BlockDocs == LinesOf(BlockLineChoices, MaxBlockLines)

InitBlock == \E m \in BlockDocs : Called(m, <<>>)

SpecBlock == InitBlock /\ [][Next]_vars

(* Calls with every options record: each field omitted or supplied, the
   booleans true and false, classPrefix empty and not, on documents that show
   each option: text, a heading, a link, a table, raw HTML, code and a list *)

\* the records that supply some of the boolean fields
FlagRecords == UNION {[D -> BOOLEAN] : D \in SUBSET (OptionFields \ {"classPrefix"})}

\* the record flags with classPrefix c supplied as well
WithClassPrefix(flags, c) ==
    [f \in DOMAIN flags \cup {"classPrefix"} |-> IF f = "classPrefix" THEN c ELSE flags[f]]

OptionRecords ==
    FlagRecords \cup {WithClassPrefix(flags, c) : flags \in FlagRecords, c \in {"", "doc"}}

OptionDocs ==
    {"", "x", "# h", "[a](u)", "A | B\n--- | ---", "<b>x</b>",
     Fence \o "js\nx" \o Fence, "- i\n\n<script>"}

InitOptions == \E m \in OptionDocs, o \in OptionRecords : Called(m, o)

SpecOptions == InitOptions /\ [][Next]_vars

(* Documents of header rows followed by separator rows and by lines that are
   none: whitespace, pipes or colons only, text *)

MaxSeparatorLines == 3

SeparatorLineChoices ==
    {"A | B", "| A |", "--- | :-:", "| --- |", " ", "|", ":", "x"}

SeparatorDocs == LinesOf(SeparatorLineChoices, MaxSeparatorLines)

InitSeparator == \E m \in SeparatorDocs : Called(m, <<>>)

SpecSeparator == InitSeparator /\ [][Next]_vars

(* Documents of tables with body rows of fewer and of more cells than the
   header, with an empty cell, and with lines after the rows *)

MaxRowLines == 4

RowLineChoices == {"A | B", "--- | :-:", "| 1 |", "1 |  | 2 | 3", "x", ""}

RowDocs == LinesOf(RowLineChoices, MaxRowLines)

InitRows == \E m \in RowDocs : Called(m, <<>>)

SpecRows == InitRows /\ [][Next]_vars

(* Documents of list lines: the three bullet markers, one- and two-digit
   numbers, an indented item, an item without text, text and empty lines *)

MaxListLines == 3

ListLineChoices == {"- a", "* b", "+ c", "1. d", "22. e", "  - f", "- ", "x", ""}

ListDocs == LinesOf(ListLineChoices, MaxListLines)

InitList == \E m \in ListDocs : Called(m, <<>>)

SpecList == InitList /\ [][Next]_vars

(* Documents of one malformed construct: a fence without its closing fence,
   a bracket without its target, an emphasis delimiter without its closer,
   alone, before a word and after text *)

MalformedOpeners == {Fence, Fence \o "js\n", Tick, "[", "[a](", "~~", "**", "__", "*", "_"}

MalformedDocs ==
    {before \o opener \o after :
        before \in {"", "x "}, opener \in MalformedOpeners, after \in {"", "bold"}}

InitMalformed == \E m \in MalformedDocs : Called(m, <<>>)

SpecMalformed == InitMalformed /\ [][Next]_vars

(* Documents of rule lines: three markers tight, spaced and indented, two
   markers, mixed markers, list items, text and empty lines *)

MaxRuleLines == 3

RuleLineChoices ==
    {"---", "***", "_ _ _", "  - - -", "----", "--", "---*", "-*-", "- a", "x", "", " "}

RuleDocs == LinesOf(RuleLineChoices, MaxRuleLines)

InitRule == \E m \in RuleDocs : Called(m, <<>>)

SpecRule == InitRule /\ [][Next]_vars

(* Documents of emphasis: the seven delimiters and words between them, under
   the default class prefix, one without and one with an underscore *)

MaxFormatTokens == 3

FormatDelimiters == {"~~", "***", "___", "**", "__", "*", "_"}

FormatWords == {"a", "b c"}

FormatDocs == Concats(FormatDelimiters \cup FormatWords, MaxFormatTokens)

FormatOptions == {<<>>, [classPrefix |-> "doc"], [classPrefix |-> "my_doc"]}

InitFormat == \E m \in FormatDocs, o \in FormatOptions : Called(m, o)

SpecFormat == InitFormat /\ [][Next]_vars

(* Documents of links, images and headings whose url, src and text hold no,
   one and two underscores or asterisks *)

MaxIntactLines == 2

IntactLineChoices ==
    {"[a](u)", "[a](x_y_z)", "[a](u_v)", "[a](u_v) [b](w_x)", "![i](v)", "![i](p*q*r)",
     "# h", "# a_b_c", "x"}

IntactDocs == LinesOf(IntactLineChoices, MaxIntactLines)

InitIntact == \E m \in IntactDocs : Called(m, <<>>)

SpecIntact == InitIntact /\ [][Next]_vars

(* Documents for the line loops: a table, quote lines with and without a
   space, a whitespace line, list items, text and empty lines, with gfm on
   and off *)

MaxLoopLines == 3

LoopLineChoices == {"A | B", "--- | ---", "> q", ">", " ", "- i", "1. n", ""}

LoopDocs == LinesOf(LoopLineChoices, MaxLoopLines)

LoopOptions == {<<>>, [gfm |-> FALSE]}

InitLoops == \E m \in LoopDocs, o \in LoopOptions : Called(m, o)

SpecLoops == InitLoops /\ [][NextLoops]_vars

\* Calls in sequence: parseMarkdown is synchronous, so the calls of a program
\* run one after the other, each starting when the one before has returned
MaxCalls == 2

CallDocs == {"# h\n[a](u)", "![b](v)", Fence \o "js\nx" \o Fence}

CallOptions == {<<>>, [gfm |-> FALSE, linksInNewTab |-> FALSE], [classPrefix |-> "doc"]}

InitCalls == \E f \in ParserFunctions, m \in CallDocs, o \in CallOptions : CalledAs(f, m, o)

\* the defaults kept as one object that each call's options are assigned into
CallAgainAssigningDefaults ==
    /\ pc = "done"
    /\ Len(ret) < MaxCalls
    /\ \E f \in ParserFunctions, m \in CallDocs, o \in CallOptions :
           /\ fn' = f
           /\ markdown' = m
           /\ options' = OptionsPassed(f, o)
           /\ opts' = [x \in OptionFields |-> IF x \in DOMAIN OptionsPassed(f, o)
                                                THEN OptionsPassed(f, o)[x] ELSE opts[x]]
           /\ text' = m
           /\ metadata' = NoMetadata
           /\ pc' = "parseCode"
           /\ UNCHANGED <<arg, ret, stages, loop>>

\* the caller, holding the values returned so far, makes its next call: the
\* call builds opts, text and metadata anew (lines 685-700)
CallAgain ==
    /\ pc = "done"
    /\ Len(ret) < MaxCalls
    /\ \E f \in ParserFunctions, m \in CallDocs, o \in CallOptions :
           /\ fn' = f
           /\ markdown' = m
           /\ options' = OptionsPassed(f, o)
           /\ opts' = MergeOptions(OptionsPassed(f, o))
           /\ text' = m
           /\ metadata' = NoMetadata
           /\ pc' = "parseCode"
           /\ UNCHANGED <<arg, ret, stages, loop>>

NextCalls == Next \/ CallAgain

SpecCalls == InitCalls /\ [][NextCalls]_vars

----------------------------------------------------------------------------
(* The exported helpers called directly *)

InitUtil ==
    /\ pc \in {"escapeHtml", "generateId"}
    /\ fn = pc
    /\ arg \in UtilStrings
    /\ loop = NoLoop
    /\ ret = <<>>
    /\ markdown = ""
    /\ options = <<>>
    /\ opts = DefaultOptions
    /\ text = ""
    /\ metadata = NoMetadata
    /\ stages = <<>>

CallEscapeHtml ==
    /\ pc = "escapeHtml"
    /\ ret' = <<escapeHtml(arg)>>
    /\ pc' = "escaped"
    /\ UNCHANGED <<fn, arg, markdown, options, opts, text, metadata, stages, loop>>

\* the caller escapes the escaped text once more: escapeHtml(escapeHtml(s))
CallEscapeHtmlAgain ==
    /\ pc = "escaped"
    /\ ret' = Append(ret, escapeHtml(ret[1]))
    /\ pc' = "escapedTwice"
    /\ UNCHANGED <<fn, arg, markdown, options, opts, text, metadata, stages, loop>>

CallGenerateId ==
    /\ pc = "generateId"
    /\ ret' = <<generateId(arg)>>
    /\ pc' = "generated"
    /\ UNCHANGED <<fn, arg, markdown, options, opts, text, metadata, stages, loop>>

NextUtil == CallEscapeHtml \/ CallEscapeHtmlAgain \/ CallGenerateId

SpecUtil == InitUtil /\ [][NextUtil]_vars

----------------------------------------------------------------------------
(* Claims about a parseMarkdown call, checked under Spec *)

IsSequence(x) == DOMAIN x = 1..Len(x)

MetadataFields == {"headings", "links", "images", "codeBlocks"}

\* the precedence the specification gives
StageOrder ==
    <<"parseCode", "parseHeaders", "parseHorizontalRules", "parseTables",
      "parseBlockquotes", "parseLists", "parseLinksAndImages",
      "parseTextFormatting", "parseParagraphs">>

\* the call has returned one result {html, metadata} whose metadata holds
\* the four arrays, all empty and with an empty html when the text is empty
Returned ==
    /\ pc = "done"
    /\ Len(ret) = 1
    /\ DOMAIN ret[1] = {"html", "metadata"}
    /\ ret[1].html \in STRING
    /\ DOMAIN ret[1].metadata = MetadataFields
    /\ \A f \in MetadataFields : IsSequence(ret[1].metadata[f])
    /\ markdown = "" => ret[1] = [html |-> "", metadata |-> NoMetadata]

\* C1: parseMarkdown is total: from every text (the empty one and those with
\* an unmatched backtick, "[" or "*" among them) and every options record
\* the call is at one of its nine stages or at its return until it is done,
\* and when it is done it has returned a result {html, metadata} whose
\* metadata holds the four arrays; for the empty text html is empty and the
\* four arrays are empty.
C1_Total ==
    /\ pc \in {StageOrder[k] : k \in 1..Len(StageOrder)} \cup {"return", "done"}
    /\ pc # "done" => ret = <<>>
    /\ pc = "done" => Returned

\* a text with an unmatched backtick, "[" and "*" has been parsed
C1_Witness ==
    /\ pc = "done"
    /\ markdown = Tick \o "[a" \o "*"
    /\ options = <<>>
    /\ ret = <<[html |-> "<p class=\"nb-md-paragraph\">" \o Tick \o "[a*</p>",
                metadata |-> NoMetadata]>>

\* C2: every call runs the nine stages once each in the order code, headings,
\* horizontal rules, tables, blockquotes, lists, links/images, emphasis,
\* paragraphs; the first stage receives the markdown, each other stage the
\* text the stage before it produced, the html returned is what the
\* paragraph stage produced and nothing runs after the return; within the
\* links/images stage an image is taken as an image, not as a link.
C2_StagesInOrder ==
    /\ Len(stages) <= Len(StageOrder)
    /\ \A k \in 1..Len(stages) :
        /\ stages[k].stage = StageOrder[k]
        /\ stages[k].received = IF k = 1 THEN markdown ELSE stages[k - 1].produced
    /\ Len(stages) < Len(StageOrder) => pc = StageOrder[Len(stages) + 1]
    /\ Len(stages) = Len(StageOrder) => pc \in {"return", "done"}
    /\ pc = "done" =>
        /\ ret[1].html = stages[Len(StageOrder)].produced
        /\ ~ENABLED Next
        /\ markdown = "![a](u)" =>
            /\ ret[1].metadata.images = <<[alt |-> "a", src |-> "u", title |-> Undefined]>>
            /\ ret[1].metadata.links = <<>>

\* a call on a heading followed by a link has returned, the link stage having
\* received the heading markup and the paragraph stage the link markup
C2_Witness ==
    /\ pc = "done"
    /\ markdown = "# [a](u)"
    /\ options = <<>>
    /\ Len(stages) = 9
    /\ stages[2].produced = "<h1 id=\"au\" class=\"nb-md-h1\">[a](u)</h1>"
    /\ stages[7].received = stages[2].produced
    /\ stages[7].produced # stages[7].received
    /\ ret[1].html = stages[8].produced

----------------------------------------------------------------------------
(* Claims about code, checked under SpecCode *)

\* the characters lo..hi of s, each but the line breaks replaced by a dot
RECURSIVE Blank(_, _, _)
Blank(s, lo, hi) ==
    IF lo > hi THEN ""
    ELSE IF lo = hi THEN (IF At(s, lo) = "\n" THEN "\n" ELSE ".")
    ELSE LET mid == (lo + hi) \div 2
         IN  Blank(s, lo, mid) \o Blank(s, mid + 1, hi)

\* s from index i on with the content of every code element (between the
\* end of a "<code ...>" tag and the next "</code>") blanked
RECURSIVE BlankCode(_, _)
BlankCodeClose(s, i, content, close) ==
    IF close = 0 THEN Sub(s, i, Len(s))
    ELSE Sub(s, i, content - 1) \o Blank(s, content, close - 1) \o BlankCode(s, close)

BlankCodeContent(s, i, content) ==
    BlankCodeClose(s, i, content, IndexOf(s, content, "</code>"))

BlankCodeOpen(s, i, open) ==
    IF open = 0 THEN Sub(s, i, Len(s))
    ELSE BlankCodeContent(s, i, FindSet(s, open, {">"}) + 1)

BlankCode(s, i) == BlankCodeOpen(s, i, IndexOf(s, i, "<code "))

LevelsOf(headings) == [k \in 1..Len(headings) |-> headings[k].level]

\* C3: the text inside fenced blocks and inline spans is never harvested:
\* the headings, links and images a call returns are as many (the headings
\* with the same levels) as the heading stage and the link stage harvest
\* from the texts they received once the content of every code element in
\* them is blanked, at whichever line of a code body a "#" line or a link
\* stands.
C3_CodeNotHarvested ==
    pc = "done" =>
        \E h \in {parseHeaders(BlankCode(stages[2].received, 1), opts)},
           l \in {parseLinksAndImages(BlankCode(stages[7].received, 1), opts)} :
            /\ LevelsOf(ret[1].metadata.headings) = LevelsOf(h.headings)
            /\ Len(ret[1].metadata.links) = Len(l.links)
            /\ Len(ret[1].metadata.images) = Len(l.images)

\* C4: the fragment parseCode emits for a fenced block with trimmed body b,
\* <pre ...><code ...>escapeHtml(b)</code></pre>, stands contiguous and
\* unaltered in the html returned, whatever b contains.
C4_FencedFragmentIntact ==
    pc = "done" =>
        \A k \in 1..Len(ret[1].metadata.codeBlocks) :
            \E block \in {ret[1].metadata.codeBlocks[k]} :
                IndexOf(ret[1].html, 1,
                        CodeBlockHtml(block.language, block.code, ClassPrefixOf(opts))) # 0

\* the fenced blocks of s from index i on, read off the text: each opening
\* fence with the word characters after it as tag, one line break skipped,
\* and the body up to the next fence
RECURSIVE FencedSpans(_, _)
FencedSpansClose(s, open, tagEnd, body, close) ==
    IF close = 0 THEN <<>>
    ELSE <<[tag |-> Sub(s, open + 3, tagEnd - 1), body |-> Sub(s, body, close - 1)]>>
         \o FencedSpans(s, close + 3)

FencedSpansBody(s, open, tagEnd, body) ==
    FencedSpansClose(s, open, tagEnd, body, IndexOf(s, body, Fence))

FencedSpansTag(s, open, tagEnd) ==
    FencedSpansBody(s, open, tagEnd, IF LitAt(s, tagEnd, "\n") THEN tagEnd + 1 ELSE tagEnd)

FencedSpansOpen(s, open) ==
    IF open = 0 THEN <<>> ELSE FencedSpansTag(s, open, SkipSet(s, open + 3, WordChars))

FencedSpans(s, i) == FencedSpansOpen(s, IndexOf(s, i, Fence))

\* c is body without the whitespace around it
IsTrimOf(c, body) ==
    /\ c = "" \/ (At(c, 1) \notin WhiteSpace /\ At(c, Len(c)) \notin WhiteSpace)
    /\ \E a \in 1..(Len(body) + 1) :
        /\ Sub(body, a, a + Len(c) - 1) = c
        /\ CharsOf(Sub(body, 1, a - 1)) \subseteq WhiteSpace
        /\ CharsOf(Sub(body, a + Len(c), Len(body))) \subseteq WhiteSpace

\* the indices from i on at which lit occurs in s, one after the other
RECURSIVE Occurrences(_, _, _)
OccurrencesFrom(s, p, lit) ==
    IF p = 0 THEN <<>> ELSE <<p>> \o Occurrences(s, p + Len(lit), lit)

Occurrences(s, i, lit) == OccurrencesFrom(s, IndexOf(s, i, lit), lit)

\* the class attribute value of a block's <code> element
CodeClass(tag, classPrefix) ==
    classPrefix \o "-code" \o (IF tag = "" THEN "" ELSE " language-" \o tag) \o "\""

\* the entries describe the blocks, and the k-th <pre><code> of the text the
\* code stage produced has the k-th block's class
DescribesBlocks(entries, blocks, produced, opens, open) ==
    /\ Len(entries) = Len(blocks)
    /\ Len(opens) = Len(blocks)
    /\ \A k \in 1..Len(blocks) :
        /\ DOMAIN entries[k] = {"language", "code"}
        /\ entries[k].language =
              IF blocks[k].tag = "" THEN Undefined ELSE Some(blocks[k].tag)
        /\ IsTrimOf(entries[k].code, blocks[k].body)
        /\ LitAt(produced, opens[k] + Len(open),
                 CodeClass(blocks[k].tag, ClassPrefixOf(opts)))

CodeOpen(classPrefix) == "<pre class=\"" \o classPrefix \o "-code-block\"><code class=\""

\* C5: metadata.codeBlocks holds one entry per fenced block of the markdown,
\* in document order, and none for inline spans: code is the body without
\* the whitespace around it, language the tag after the opening fence or
\* undefined when there is none, and in that case the <code> element emitted
\* has no language- class.
C5_CodeBlocks ==
    pc = "done" =>
        \E open \in {CodeOpen(ClassPrefixOf(opts))} :
            DescribesBlocks(ret[1].metadata.codeBlocks, FencedSpans(markdown, 1),
                            stages[1].produced,
                            Occurrences(stages[1].produced, 1, open), open)

\* a tagged block and an untagged one, in this order, have been returned
C5_Witness ==
    /\ pc = "done"
    /\ markdown = Fence \o "js\n" \o Fence \o Fence \o Fence
    /\ ret[1].metadata.codeBlocks =
          <<[language |-> Some("js"), code |-> ""], [language |-> Undefined, code |-> ""]>>

\* the contents of the inline spans of s from index i on, read off the text:
\* a backtick, at least one character, the next backtick
RECURSIVE InlineSpans(_, _)
InlineSpansClose(s, open, close) ==
    IF close = 0 THEN <<>>
    ELSE IF close = open + 1 THEN InlineSpans(s, close)
    ELSE <<Sub(s, open + 1, close - 1)>> \o InlineSpans(s, close + 1)

InlineSpansOpen(s, open) ==
    IF open = 0 THEN <<>> ELSE InlineSpansClose(s, open, IndexOf(s, open + 1, Tick))

InlineSpans(s, i) == InlineSpansOpen(s, IndexOf(s, i, Tick))

\* C6: the content c of an inline span reaches the text the code stage
\* produces HTML-escaped: in a markdown without fences the <code> element of
\* each span holds escapeHtml(c).
C6_InlineCodeEscaped ==
    (Len(stages) >= 1 /\ IndexOf(markdown, 1, Fence) = 0) =>
        \E spans \in {InlineSpans(markdown, 1)} :
            \A k \in 1..Len(spans) :
                IndexOf(stages[1].produced, 1,
                        InlineCodeHtml(escapeHtml(spans[k]), ClassPrefixOf(opts))) # 0

----------------------------------------------------------------------------
(* Claims about headings, checked under SpecHead *)

\* the number of "#" a line begins with
LeadingHashes(line) == SkipSet(line, 1, {"#"}) - 1

\* the level of a heading line, one that by itself matches 1-6 "#", whitespace
\* and text; 0 for any other line
HeadingLineLevel(line) ==
    IF /\ LeadingHashes(line) \in 1..6
       /\ Len(line) >= LeadingHashes(line) + 2
       /\ At(line, LeadingHashes(line) + 1) \in WhiteSpace
    THEN LeadingHashes(line) ELSE 0

\* the entry a heading line stands for
HeadingLineEntry(line, level, heading) ==
    /\ level \in 1..6
    /\ heading.level = level
    /\ heading.text = Trim(Sub(line, level + 1, Len(line)))
    /\ heading.id = generateId(heading.text)

\* C7: every entry of metadata.headings is that of a heading line of the
\* document: its level is the number of "#" the line begins with and lies in
\* 1..6 (a line beginning with 7 or more "#" has no entry), its text is the
\* trimmed text of the line after the "#", its id is generateId(text); two
\* entries with the same text have the same id.
C7_HeadingEntries ==
    pc = "done" =>
        \E lines \in {Split(markdown, 1, "\n")}, headings \in {ret[1].metadata.headings} :
            /\ \A k \in 1..Len(headings) :
                \E j \in 1..Len(lines) :
                    HeadingLineEntry(lines[j], HeadingLineLevel(lines[j]), headings[k])
            /\ \A k1, k2 \in 1..Len(headings) :
                headings[k1].text = headings[k2].text => headings[k1].id = headings[k2].id

RECURSIVE NonZero(_, _)
NonZero(levels, k) ==
    IF k > Len(levels) THEN <<>>
    ELSE (IF levels[k] = 0 THEN <<>> ELSE <<levels[k]>>) \o NonZero(levels, k + 1)

\* the levels of the heading lines among lines, in their order
HeadingLineLevels(lines) ==
    NonZero([j \in 1..Len(lines) |-> HeadingLineLevel(lines[j])], 1)

\* C8: metadata.headings lists the headings in document order: the levels of
\* its entries, in sequence, are the "#" counts of the heading lines of the
\* document, in sequence.
C8_HeadingsInOrder ==
    pc = "done" =>
        LevelsOf(ret[1].metadata.headings) = HeadingLineLevels(Split(markdown, 1, "\n"))

\* a line that begins with "#" and holds no text after its "#"
HoldsOnlyHashes(line) ==
    /\ LeadingHashes(line) >= 1
    /\ Trim(Sub(line, LeadingHashes(line) + 1, Len(line))) = ""

\* C30: a heading is made from one line only: the header stage keeps the
\* number of lines, a line that holds only "#" comes out as it went in, and so
\* does the line after it unless that line is a heading line itself.
C30_HeadingFromOneLine ==
    pc = "done" =>
        \E received \in {Split(stages[2].received, 1, "\n")},
           produced \in {Split(stages[2].produced, 1, "\n")} :
            /\ Len(produced) = Len(received)
            /\ \A j \in 1..Len(received) :
                   HoldsOnlyHashes(received[j]) =>
                       /\ produced[j] = received[j]
                       /\ (j < Len(received) /\ HeadingLineLevel(received[j + 1]) = 0)
                              => produced[j + 1] = received[j + 1]

----------------------------------------------------------------------------
(* Claims about links and images, checked under SpecLink *)

\* s from index i on with every <img ...> element blanked
RECURSIVE BlankImg(_, _)
BlankImgClose(s, i, open, close) ==
    IF close > Len(s) THEN Sub(s, i, Len(s))
    ELSE Sub(s, i, open - 1) \o Blank(s, open, close) \o BlankImg(s, close + 1)

BlankImgOpen(s, i, open) ==
    IF open = 0 THEN Sub(s, i, Len(s))
    ELSE BlankImgClose(s, i, open, FindSet(s, open, {">"}))

BlankImg(s, i) == BlankImgOpen(s, i, IndexOf(s, i, "<img "))

UrlsOf(links) == [k \in 1..Len(links) |-> links[k].url]

\* the links harvested from a text; nothing opens in a new tab
LinksIn(s, classPrefix) == ReplaceLinks(s, 1, classPrefix, "").entries

\* C11: images take precedence over links: every image construct of the
\* text leaves one <img> element and one entry of metadata.images, and no
\* entry of metadata.links: the links returned are those harvested once the
\* <img> elements the image pass has written are blanked.
C11_ImagesNotLinks ==
    pc = "done" =>
        \E imaged \in {ReplaceImages(stages[7].received, 1, ClassPrefixOf(opts))} :
            /\ ret[1].metadata.images = imaged.entries
            /\ Len(imaged.entries) = Len(Occurrences(imaged.text, 1, "<img "))
            /\ UrlsOf(ret[1].metadata.links)
                  = UrlsOf(LinksIn(BlankImg(imaged.text, 1), ClassPrefixOf(opts)))

NewTabAttrs == " target=\"_blank\" rel=\"noopener noreferrer\">"

\* C12: with linksInNewTab true every <a> element of the html returned
\* carries target="_blank" rel="noopener noreferrer" intact at the end of its
\* tag, also when links or underscores share a line; with linksInNewTab false
\* the html holds no target or rel attribute.
C12_LinkTargets ==
    pc = "done" =>
        IF opts.linksInNewTab
        THEN Len(Occurrences(ret[1].html, 1, "<a href=\""))
                = Len(Occurrences(ret[1].html, 1, NewTabAttrs))
        ELSE /\ IndexOf(ret[1].html, 1, " target=") = 0
             /\ IndexOf(ret[1].html, 1, " rel=") = 0

----------------------------------------------------------------------------
(* Claims about tables, checked under SpecTable *)

\* the alignment of each cell of a separator row, the cells taken as those
\* of a header or body row are
SeparatorAlignments(separator) ==
    [k \in 1..Len(Cells(separator)) |-> Alignment(Cells(separator)[k])]

\* the element of the k-th cell of a row under the alignments
CellElement(cells, k, alignments, tag, classPrefix) ==
    "<" \o tag \o " class=\"" \o classPrefix
    \o (IF tag = "th" THEN "-table-header" ELSE "-table-cell")
    \o AlignClass(alignments, k, classPrefix) \o "\">" \o cells[k] \o "</" \o tag \o ">"

\* the text produced holds, for each cell of the header row and of the body
\* rows of the table that lines begins with, its element under the alignments
AlignedAs(lines, alignments, produced, classPrefix) ==
    \A i \in (1..(TableRowsEnd(lines, 3) - 1)) \ {2} :
        \A k \in 1..Len(Cells(lines[i])) :
            IndexOf(produced, 1,
                    CellElement(Cells(lines[i]), k, alignments,
                                IF i = 1 THEN "th" ELSE "td", classPrefix)) # 0

\* C13: column alignment is taken per cell position from the separator row:
\* in a text that begins with a table, the k-th cell of the header row and of
\* each body row has the center class when the k-th separator cell starts and
\* ends with ":", the right class when it only ends with ":", and no
\* alignment class otherwise.
C13_Alignment ==
    (pc = "done" /\ opts.gfm) =>
        \E lines \in {Split(stages[4].received, 1, "\n")} :
            IsTableHeader(lines, 1) =>
                AlignedAs(lines, SeparatorAlignments(lines[2]), stages[4].produced,
                          ClassPrefixOf(opts))

\* some line with a "|" is followed by a separator row
HasTable(lines) == \E i \in 1..Len(lines) : IsTableHeader(lines, i)

\* C14: with gfm false the table stage returns its text unchanged and the
\* html of a markdown without "<table" holds no "<table"; gfm is true when
\* the caller omits it, and with gfm true the stage is active: a text with a
\* header row and a separator row gets a <table>.
C14_GfmGate ==
    pc = "done" =>
        /\ opts.gfm = (IF "gfm" \in DOMAIN options THEN options.gfm ELSE TRUE)
        /\ ~opts.gfm =>
            /\ stages[4].produced = stages[4].received
            /\ IndexOf(markdown, 1, "<table") = 0 => IndexOf(ret[1].html, 1, "<table") = 0
        /\ (opts.gfm /\ HasTable(Split(stages[4].received, 1, "\n"))) =>
            IndexOf(stages[4].produced, 1, "<table class=\"") # 0

\* a table document has been parsed with gfm false and has come out as text
C14_Witness ==
    /\ pc = "done"
    /\ options = [gfm |-> FALSE]
    /\ markdown = "| A | B |\n| :--- | ---: |\n| 1 | 2 |"
    /\ stages[4].produced = markdown
    /\ ret[1].html
          = "<p class=\"nb-md-paragraph\">| A | B |<br>| :--- | ---: |<br>| 1 | 2 |</p>"

----------------------------------------------------------------------------
(* Claims about body rows, checked under SpecRows *)

\* the first line from i on that is empty or has no "|", Len(lines) + 1 when
\* there is none
BodyRowsEnd(lines, i) ==
    MinOf({j \in i..(Len(lines) + 1) :
              j = Len(lines) + 1 \/ lines[j] = "" \/ ~Includes(lines[j], "|")})

\* the number of cells, and of rows that have cells, of lines i..j-1
RECURSIVE CountCells(_, _, _)
CountCells(lines, i, j) ==
    IF i >= j THEN 0 ELSE Len(Cells(lines[i])) + CountCells(lines, i + 1, j)

RECURSIVE CountRows(_, _, _)
CountRows(lines, i, j) ==
    IF i >= j THEN 0
    ELSE (IF Len(Cells(lines[i])) > 0 THEN 1 ELSE 0) + CountRows(lines, i + 1, j)

\* element is one <table> with one <thead> and one <tbody>, a <th> for each
\* cell of the header lines[i], a <td> for each cell of the body rows
\* lines[i+2..e-1], and no alignment but by class
IsOneTable(element, lines, i, e, classPrefix) ==
    /\ LitAt(element, 1, "<table class=\"" \o classPrefix \o "-table\"><thead ")
    /\ LitAt(element, Len(element) - 15, "</tbody></table>")
    /\ Len(Occurrences(element, 1, "<table ")) = 1
    /\ Len(Occurrences(element, 1, "<thead ")) = 1
    /\ Len(Occurrences(element, 1, "<tbody ")) = 1
    /\ Len(Occurrences(element, 1, "<th ")) = Len(Cells(lines[i]))
    /\ Len(Occurrences(element, 1, "<td ")) = CountCells(lines, i + 2, e)
    /\ Len(Occurrences(element, 1, "<tr ")) = 1 + CountRows(lines, i + 2, e)
    /\ \A r \in (i + 2)..(e - 1) : \A k \in 1..Len(Cells(lines[r])) :
           IndexOf(element, 1, "\">" \o Cells(lines[r])[k] \o "</td>") # 0
    /\ IndexOf(element, 1, "style=") = 0
    /\ IndexOf(element, 1, "align=") = 0

\* produced, from line k on, is lines from line i on with every header row,
\* its separator and the body rows that follow them made one table, and
\* every other line as it is
RECURSIVE TablesMade(_, _, _, _, _)
TablesMade(lines, i, produced, k, classPrefix) ==
    IF i > Len(lines) THEN k > Len(produced)
    ELSE /\ k <= Len(produced)
         /\ IF IsTableHeader(lines, i)
            THEN /\ IsOneTable(produced[k], lines, i, BodyRowsEnd(lines, i + 2), classPrefix)
                 /\ TablesMade(lines, BodyRowsEnd(lines, i + 2), produced, k + 1, classPrefix)
            ELSE /\ produced[k] = lines[i]
                 /\ TablesMade(lines, i + 1, produced, k + 1, classPrefix)

----------------------------------------------------------------------------
(* Claims about separator rows, checked under SpecSeparator *)

\* cell is a run of "-", optionally flanked by ":"
IsSeparatorCell(cell) ==
    \E a \in {IF LitAt(cell, 1, ":") THEN 2 ELSE 1},
       b \in {IF LitAt(cell, Len(cell), ":") THEN Len(cell) - 1 ELSE Len(cell)} :
        /\ a <= b
        /\ \A i \in a..b : At(cell, i) = "-"

\* the trimmed texts between the "|" of a line, those before a leading and
\* after a trailing "|" left out
PipeCells(line) ==
    LET raw == Split(line, 1, "|")
        lo == IF Trim(raw[1]) = "" THEN 2 ELSE 1
        hi == IF Trim(raw[Len(raw)]) = "" THEN Len(raw) - 1 ELSE Len(raw)
    IN  [k \in 1..(IF hi >= lo THEN hi - lo + 1 ELSE 0) |-> Trim(raw[lo + k - 1])]

\* line is a separator row: one or more cells, each a separator cell
SeparatesColumns(line) ==
    /\ Len(PipeCells(line)) >= 1
    /\ \A k \in 1..Len(PipeCells(line)) : IsSeparatorCell(PipeCells(line)[k])

\* C24: with gfm true a <table> is emitted only for a line with a "|" that
\* a separator row follows: a text in which no such pair of lines stands
\* leaves the table stage unchanged and gets no table, and a text in which
\* one stands gets a table.
C24_SeparatorNeeded ==
    (pc = "done" /\ opts.gfm) =>
        \E lines \in {Split(stages[4].received, 1, "\n")} :
            IF \E i \in 1..(Len(lines) - 1) :
                   Includes(lines[i], "|") /\ SeparatesColumns(lines[i + 1])
            THEN IndexOf(stages[4].produced, 1, "<table class=\"") # 0
            ELSE /\ stages[4].produced = stages[4].received
                 /\ IndexOf(ret[1].html, 1, "<table") = 0

----------------------------------------------------------------------------
(* Claims about blocks, checked under SpecBlock *)

IsQuoteLine(line) == LitAt(line, 1, ">")

IsBlankLine(line) == CharsOf(line) \subseteq WhiteSpace

\* the number of blockquote runs among lines i.., inRun telling whether line
\* i - 1 is in a run: a run starts at a ">" line outside a run and ends at a
\* line that neither starts with ">" nor is blank
RECURSIVE QuoteRuns(_, _, _)
QuoteRuns(lines, i, inRun) ==
    IF i > Len(lines) THEN 0
    ELSE IF inRun
    THEN QuoteRuns(lines, i + 1, IsQuoteLine(lines[i]) \/ IsBlankLine(lines[i]))
    ELSE IF IsQuoteLine(lines[i]) THEN 1 + QuoteRuns(lines, i + 1, TRUE)
    ELSE QuoteRuns(lines, i + 1, FALSE)

\* C15: a blockquote run starts at a ">" line, extends over every following
\* line that starts with ">" or is blank (empty or whitespace only) and ends
\* only at a line that is neither, and each run becomes one <blockquote>: the
\* text the blockquote stage produces has as many <blockquote> elements as
\* the text it received has runs.
C15_QuoteRuns ==
    Len(stages) >= 5 =>
        Len(Occurrences(stages[5].produced, 1, "<blockquote "))
            = QuoteRuns(Split(stages[5].received, 1, "\n"), 1, FALSE)

\* the number of line breaks among the characters lo..hi of s
LineBreaks(s, lo, hi) == Cardinality({k \in lo..hi : At(s, k) = "\n"})

\* the blocks of s from the non-blank index b on, scanned from index i: a
\* block ends where whitespace with two or more line breaks follows, or with
\* the text; w is where the next whitespace begins and e where it ends
RECURSIVE Segments(_, _, _)
SegmentsAt(s, b, w, e) ==
    IF w > Len(s) THEN <<Sub(s, b, Len(s))>>
    ELSE IF e > Len(s) THEN <<Sub(s, b, w - 1)>>
    ELSE IF LineBreaks(s, w, e - 1) >= 2 THEN <<Sub(s, b, w - 1)>> \o Segments(s, e, e)
    ELSE Segments(s, b, e)

SegmentsFrom(s, b, w) == SegmentsAt(s, b, w, SkipSet(s, w, WhiteSpace))

Segments(s, b, i) ==
    IF b > Len(s) THEN <<>> ELSE SegmentsFrom(s, b, FindSet(s, i, WhiteSpace))

StartsWithBlockTag(block) ==
    \E tag \in {"h1", "h2", "h3", "h4", "h5", "h6", "ul", "ol", "table",
                "blockquote", "pre", "hr", "div"} : LitAt(block, 1, "<" \o tag)

\* what the paragraph stage makes of a block
Wrapped(block, classPrefix) ==
    IF StartsWithBlockTag(block) THEN block
    ELSE "<p class=\"" \o classPrefix \o "-paragraph\">"
         \o Join(Split(block, 1, "\n"), 1, "<br>") \o "</p>"

WrappedAll(blocks, classPrefix) ==
    Join([k \in 1..Len(blocks) |-> Wrapped(blocks[k], classPrefix)], 1, "\n\n")

\* C16: the paragraph stage splits its text on blank lines, drops the blocks
\* that are empty once trimmed, returns a block that starts with one of the
\* tags h1..h6, ul, ol, table, blockquote, pre, hr, div as it is, and wraps
\* any other block in one <p> with each line break in it replaced by <br>;
\* its output holds no empty <p>.
C16_Paragraphs ==
    Len(stages) >= 9 =>
        \E received \in {stages[9].received} :
            /\ stages[9].produced
                  = WrappedAll(Segments(received, SkipSet(received, 1, WhiteSpace),
                                        SkipSet(received, 1, WhiteSpace)),
                               ClassPrefixOf(opts))
            /\ IndexOf(stages[9].produced, 1,
                       "<p class=\"" \o ClassPrefixOf(opts) \o "-paragraph\"></p>") = 0

\* a heading block has passed unwrapped and a text block has been wrapped
C16_Witness ==
    /\ pc = "done"
    /\ markdown = "# h\n\nx"
    /\ ret[1].html = "<h1 id=\"h\" class=\"nb-md-h1\">h</h1>\n\n<p class=\"nb-md-paragraph\">x</p>"

BlockMarks ==
    {"<h1", "</h1>", "<ul", "</ul>", "<ol", "</ol>", "<table", "</table>",
     "<blockquote", "</blockquote>", "<pre", "</pre>", "<hr"}

\* no block-level markup stands in the <p> element that opens at index p
ParagraphClean(html, p, close) ==
    \A mark \in BlockMarks : IndexOf(Sub(html, p, close), 1, mark) = 0

\* no <br> stands in the element that opens at index p and closes at close
NoBreakIn(html, p, close) ==
    close = 0 \/ IndexOf(Sub(html, p, close), 1, "<br>") = 0

\* C17: no block-level fragment of an earlier stage (heading, list, table,
\* blockquote, pre, hr), nor a part of one, lies inside a <p> element of the
\* html returned, and no <br> lies inside a fragment, also when the construct
\* follows or precedes a text line directly and when the fragment holds a
\* blank line.
C17_BlocksNotWrapped ==
    pc = "done" =>
        \E html \in {ret[1].html} :
            /\ \E opens \in {Occurrences(html, 1, "<p class=")} :
                \A k \in 1..Len(opens) :
                    ParagraphClean(html, opens[k], IndexOf(html, opens[k], "</p>"))
            /\ \A tag \in {"h1", "ul", "ol", "table", "blockquote", "pre"} :
                \E opens \in {Occurrences(html, 1, "<" \o tag)} :
                    \A k \in 1..Len(opens) :
                        NoBreakIn(html, opens[k], IndexOf(html, opens[k], "</" \o tag \o ">"))

----------------------------------------------------------------------------
(* Claims about metadata and html, checked under SpecLink *)

\* index p of html lies inside a tag: a "<" before it is not yet closed
InsideTag(html, p) ==
    \E q \in 1..(p - 1) :
        At(html, q) = "<" /\ \A r \in (q + 1)..(p - 1) : At(html, r) # ">"

\* the indices of html at which an element opens with the text open: the
\* occurrences of open that are not part of another tag
ElementOpens(html, open) ==
    SelectSeq(Occurrences(html, 1, open), LAMBDA p : ~InsideTag(html, p))

\* the indices of html at which a heading element opens, in ascending order
HeadingOpens(html) ==
    LET P == UNION {{ElementOpens(html, "<h" \o At(Digits, n + 1) \o " id=\"")[k] :
                        k \in 1..Len(ElementOpens(html, "<h" \o At(Digits, n + 1) \o " id=\""))} :
                    n \in 1..6}
    IN  [k \in 1..Cardinality(P) |->
            CHOOSE p \in P : Cardinality({q \in P : q < p}) = k - 1]

\* at each of the indices opens of html stands open followed by the text
\* that goes with the entry of the same index
OpensMatch(html, opens, open, texts) ==
    /\ Len(opens) = Len(texts)
    /\ \A k \in 1..Len(texts) : LitAt(html, opens[k] + Len(open), texts[k])

\* C21: metadata and html agree: the html returned holds as many heading
\* elements, <a>, <img> and <pre> code-block elements as the metadata has
\* headings, links, images and code blocks, and the k-th element carries the
\* id, the href, the src or the language class of the k-th entry.
C21_MetadataMatchesHtml ==
    pc = "done" =>
        \E html \in {ret[1].html}, recorded \in {ret[1].metadata},
           block \in {CodeOpen(ClassPrefixOf(opts))} :
            /\ OpensMatch(html, ElementOpens(html, "<a href=\""), "<a href=\"",
                          [k \in 1..Len(recorded.links) |->
                              escapeHtml(recorded.links[k].url) \o "\""])
            /\ OpensMatch(html, ElementOpens(html, "<img src=\""), "<img src=\"",
                          [k \in 1..Len(recorded.images) |->
                              escapeHtml(recorded.images[k].src) \o "\""])
            /\ OpensMatch(html, HeadingOpens(html), "<h",
                          [k \in 1..Len(recorded.headings) |->
                              At(Digits, recorded.headings[k].level + 1) \o " id=\""
                                  \o recorded.headings[k].id \o "\""])
            /\ OpensMatch(html, ElementOpens(html, block), block,
                          [k \in 1..Len(recorded.codeBlocks) |->
                              CodeClass(IF recorded.codeBlocks[k].language = Undefined
                                        THEN ""
                                        ELSE recorded.codeBlocks[k].language[1],
                                        ClassPrefixOf(opts))])

----------------------------------------------------------------------------
(* Claims about termination, checked under SpecLoops *)

\* C29: every call terminates: in the line loops of the table, blockquote
\* and list stages the line index strictly increases on every iteration of
\* the outer loop, it never passes the line after the last, a stage makes at
\* most as many outer iterations as there are lines, and the text a loop
\* leaves is the text of its stage.
C29_LoopsAdvance ==
    /\ [](loop # NoLoop =>
             /\ loop.i \in 1..(Len(loop.lines) + 1)
             /\ loop.iterations <= loop.i - 1
             /\ Len(loop.result) = loop.iterations)
    /\ [][(loop # NoLoop /\ loop' # NoLoop) => loop'.i > loop.i]_vars
    /\ [](pc = "done" =>
             /\ Len(stages) = 9
             /\ stages[4].produced = parseTables(stages[4].received, opts)
             /\ stages[5].produced = parseBlockquotes(stages[5].received, opts)
             /\ stages[6].produced = parseLists(stages[6].received, opts))

\* the loop of the list stage has run over a document of three lines in two
\* iterations, the run of two items taken in the first
C29_Witness ==
    /\ pc = "parseLists"
    /\ markdown = "- i\n- i\n> q"
    /\ loop.i = 4
    /\ loop.iterations = 2
    /\ Len(loop.lines) = 3

----------------------------------------------------------------------------
(* Claims about malformed constructs, checked under SpecMalformed *)

\* the paragraph that shows s as plain text, its line breaks as <br>
PlainParagraph(s, classPrefix) ==
    "<p class=\"" \o classPrefix \o "-paragraph\">"
    \o Join(Split(Trim(s), 1, "\n"), 1, "<br>") \o "</p>"

\* C22: a malformed construct is matched by no stage and rendered literally:
\* a markdown holding an unterminated fence, an unmatched "[" or an emphasis
\* opener without its closer comes back as one paragraph of plain text with
\* its marker characters unchanged, no tag made of them, and no metadata
\* entry.
C22_MalformedLiteral ==
    pc = "done" =>
        /\ ret[1].html = PlainParagraph(markdown, ClassPrefixOf(opts))
        /\ ret[1].metadata = NoMetadata

----------------------------------------------------------------------------
(* Claims about lists, checked under SpecList *)

\* the text of an item line: what follows its marker and the whitespace
\* after the marker
TextOfItem(line, ordered) ==
    LET a == SkipSet(line, 1, WhiteSpace)
        m == IF ordered THEN SkipSet(line, a, CharsOf(Digits)) ELSE a
    IN  Sub(line, SkipSet(line, m + 1, WhiteSpace), Len(line))

\* the first line from i on that is not an item line of the family
RunEndOf(lines, i, ordered) ==
    MinOf({j \in i..(Len(lines) + 1) : j = Len(lines) + 1 \/ ~IsItem(lines[j], ordered)})

\* one <li> for each of the lines i..j-1, in their order
RECURSIVE SiblingItems(_, _, _, _, _)
SiblingItems(lines, i, j, ordered, classPrefix) ==
    IF i >= j THEN ""
    ELSE "<li class=\"" \o classPrefix \o "-list-item\">" \o TextOfItem(lines[i], ordered)
         \o "</li>" \o SiblingItems(lines, i + 1, j, ordered, classPrefix)

\* the one list that the run of lines i..j-1 stands for
OneList(lines, i, j, ordered, classPrefix) ==
    (IF ordered
     THEN "<ol class=\"" \o classPrefix \o "-list " \o classPrefix \o "-ordered-list\">"
     ELSE "<ul class=\"" \o classPrefix \o "-list " \o classPrefix \o "-unordered-list\">")
    \o SiblingItems(lines, i, j, ordered, classPrefix)
    \o (IF ordered THEN "</ol>" ELSE "</ul>")

\* lines from line i on, every maximal run of item lines of one family made
\* one list and every other line kept
RECURSIVE FlatLists(_, _, _)
FlatLists(lines, i, classPrefix) ==
    IF i > Len(lines) THEN <<>>
    ELSE IF IsItem(lines[i], FALSE)
    THEN <<OneList(lines, i, RunEndOf(lines, i, FALSE), FALSE, classPrefix)>>
         \o FlatLists(lines, RunEndOf(lines, i, FALSE), classPrefix)
    ELSE IF IsItem(lines[i], TRUE)
    THEN <<OneList(lines, i, RunEndOf(lines, i, TRUE), TRUE, classPrefix)>>
         \o FlatLists(lines, RunEndOf(lines, i, TRUE), classPrefix)
    ELSE <<lines[i]>> \o FlatLists(lines, i + 1, classPrefix)

\* C25: lists are flat runs: the list stage makes of every maximal run of k
\* consecutive bullet lines one <ul> with k sibling <li> in source order, of
\* every maximal run of numbered lines one <ol>; a run closes at the first
\* line that is no item of its family, indented items are siblings, item
\* text is copied unchanged, and every other line is kept; the html
\* returned holds the same list items.
C25_FlatLists ==
    pc = "done" =>
        /\ Split(stages[6].produced, 1, "\n")
              = FlatLists(Split(stages[6].received, 1, "\n"), 1, ClassPrefixOf(opts))
        /\ Len(Occurrences(ret[1].html, 1, "<li "))
              = Len(Occurrences(stages[6].produced, 1, "<li "))

----------------------------------------------------------------------------
(* Claims about horizontal rules, checked under SpecRule *)

\* line consists solely of three or more occurrences of one marker, with
\* whitespace between and around them
IsRuleLine(line) ==
    \E c \in RuleMarkers :
        /\ \A i \in 1..Len(line) : At(line, i) \in WhiteSpace \cup {c}
        /\ Cardinality({i \in 1..Len(line) : At(line, i) = c}) >= 3

\* C26: a line becomes <hr> exactly when it is a rule line: the rule stage
\* keeps the number of lines, turns every rule line (an indented one too)
\* into an <hr> of its own and leaves every other line as it is; the html
\* returned holds one <hr> for each rule line and no list item made of one.
C26_RuleLines ==
    pc = "done" =>
        \E received \in {Split(stages[3].received, 1, "\n")},
           produced \in {Split(stages[3].produced, 1, "\n")} :
            /\ Len(produced) = Len(received)
            /\ \A j \in 1..Len(received) :
                   IF IsRuleLine(received[j])
                   THEN Trim(produced[j]) = "<hr class=\"nb-md-hr\">"
                   ELSE produced[j] = received[j]
            /\ Len(Occurrences(ret[1].html, 1, "<hr "))
                   = Cardinality({j \in 1..Len(received) : IsRuleLine(received[j])})

----------------------------------------------------------------------------
(* Claims about emphasis, checked under SpecFormat *)

\* the element that the text x between two delimiters D stands for
Emphasised(D, x, classPrefix) ==
    CASE D = "~~" -> "<del class=\"" \o classPrefix \o "-strikethrough\">" \o x \o "</del>"
      [] D \in {"***", "___"} ->
            "<strong class=\"" \o classPrefix \o "-bold\"><em class=\"" \o classPrefix
                \o "-italic\">" \o x \o "</em></strong>"
      [] D \in {"**", "__"} -> "<strong class=\"" \o classPrefix \o "-bold\">" \o x \o "</strong>"
      [] D \in {"*", "_"} -> "<em class=\"" \o classPrefix \o "-italic\">" \o x \o "</em>"

\* C27: emphasis is resolved in the order strikethrough, triple, double,
\* single marker: a text D x D, x a word without marker characters, leaves the
\* emphasis stage as the one element that D stands for, its tags carrying
\* classes that begin with the class prefix, and stands so in the html.
C27_EmphasisPrecedence ==
    pc = "done" =>
        \A D \in FormatDelimiters, x \in FormatWords :
            stages[8].received = D \o x \o D =>
                /\ stages[8].produced = Emphasised(D, x, opts.classPrefix)
                /\ ret[1].html = "<p class=\"" \o opts.classPrefix \o "-paragraph\">"
                                     \o Emphasised(D, x, opts.classPrefix) \o "</p>"

----------------------------------------------------------------------------
(* Claims about emitted tags, checked under SpecIntact *)

\* C28: later stages do not alter the tags emitted by earlier stages: the
\* html returned holds href="escapeHtml(url)" for every recorded link,
\* src="escapeHtml(src)" for every recorded image and id="<id>" for every
\* recorded heading, underscores and asterisks of the url, src or id included.
C28_EmittedTagsIntact ==
    pc = "done" =>
        \E html \in {ret[1].html}, recorded \in {ret[1].metadata} :
            /\ \A k \in 1..Len(recorded.links) :
                   IndexOf(html, 1, "href=\"" \o escapeHtml(recorded.links[k].url) \o "\"") # 0
            /\ \A k \in 1..Len(recorded.images) :
                   IndexOf(html, 1, "src=\"" \o escapeHtml(recorded.images[k].src) \o "\"") # 0
            /\ \A k \in 1..Len(recorded.headings) :
                   IndexOf(html, 1, "id=\"" \o recorded.headings[k].id \o "\"") # 0

----------------------------------------------------------------------------
(* Claims about options, checked under SpecOptions *)

\* the value the caller's record gives field f, the default when omitted
CallerValue(o, f) == IF f \in DOMAIN o THEN o[f] ELSE DefaultOptions[f]

\* every class attribute of html begins with prefix and "-"
ClassesBeginWith(html, prefix, at) ==
    \A k \in 1..Len(at) : LitAt(html, at[k] + Len("class=\""), prefix \o "-")

\* C18: options are merged with the defaults {sanitize: true, linksInNewTab:
\* true, classPrefix: "nb-md", gfm: true, math: false} and the caller's
\* values win: each field of opts is the caller's value when supplied and the
\* default when omitted, and the stages use these values: every class of the
\* html begins with the caller's classPrefix (the empty one included), no
\* <table> is made when the caller sets gfm false and no target attribute
\* when the caller sets linksInNewTab false.
C18_CallerValuesWin ==
    /\ \A f \in OptionFields : opts[f] = CallerValue(options, f)
    /\ pc = "done" =>
        /\ ClassesBeginWith(ret[1].html, CallerValue(options, "classPrefix"),
                            Occurrences(ret[1].html, 1, "class=\""))
        /\ ~CallerValue(options, "gfm") => IndexOf(ret[1].html, 1, "<table") = 0
        /\ ~CallerValue(options, "linksInNewTab") => IndexOf(ret[1].html, 1, " target=") = 0

\* result is what the nine stages make of m under the merged options o, each
\* stage applied to the text of the stage before it
Parses(m, o, result) ==
    \E c \in {parseCode(m, o)} :
    \E h \in {parseHeaders(c.text, o)} :
    \E r \in {parseHorizontalRules(h.text, o)} :
    \E t \in {parseTables(r, o)} :
    \E q \in {parseBlockquotes(t, o)} :
    \E l \in {parseLists(q, o)} :
    \E k \in {parseLinksAndImages(l, o)} :
    \E f \in {parseTextFormatting(k.text, o)} :
        result = [html |-> parseParagraphs(f, o),
                  metadata |-> [headings |-> h.headings, links |-> k.links,
                                images |-> k.images, codeBlocks |-> c.codeBlocks]]

----------------------------------------------------------------------------
(* Claims about sequences of calls, checked under SpecCalls *)

SpecialChars == {"&", "<", ">", "\"", "'"}

HasSpecial(s) == CharsOf(s) \cap SpecialChars # {}

Entities == {"&amp;", "&lt;", "&gt;", "&quot;", "&#39;"}

EntityAt(s, i) == \E e \in Entities : LitAt(s, i, e)

\* the text an escaped text stands for: each entity read back as its character
RECURSIVE Unescape(_, _)
Unescape(s, i) ==
    IF i > Len(s) THEN ""
    ELSE IF LitAt(s, i, "&amp;") THEN "&" \o Unescape(s, i + 5)
    ELSE IF LitAt(s, i, "&lt;") THEN "<" \o Unescape(s, i + 4)
    ELSE IF LitAt(s, i, "&gt;") THEN ">" \o Unescape(s, i + 4)
    ELSE IF LitAt(s, i, "&quot;") THEN "\"" \o Unescape(s, i + 6)
    ELSE IF LitAt(s, i, "&#39;") THEN "'" \o Unescape(s, i + 5)
    ELSE At(s, i) \o Unescape(s, i + 1)

\* no special character is left in s but the "&" that opens an entity
FullyEscaped(s) ==
    \A i \in 1..Len(s) :
        /\ At(s, i) \notin SpecialChars \ {"&"}
        /\ At(s, i) = "&" => EntityAt(s, i)

\* C10: escapeHtml replaces each of & < > " ' by its entity and leaves every
\* other character unchanged (the result holds no raw special character and
\* reads back as the argument); it is not idempotent: escaping the result of
\* a text with a special character changes it again, and a text without
\* special characters is returned as it is.
C10_EscapeNotIdempotent ==
    pc \in {"escaped", "escapedTwice"} =>
        /\ FullyEscaped(ret[1])
        /\ Unescape(ret[1], 1) = arg
        /\ ~HasSpecial(arg) => ret[1] = arg
        /\ pc = "escapedTwice" =>
              /\ HasSpecial(arg) => ret[2] # ret[1]
              /\ ~HasSpecial(arg) => ret[2] = ret[1]

\* a text with a special character has been escaped twice
C10_Witness ==
    /\ pc = "escapedTwice"
    /\ arg = "<'"
    /\ ret = <<"&lt;&#39;", "&amp;lt;&amp;#39;">>

\* the slug of s computed in one pass: the runs of word characters of the
\* lowercased text joined by single hyphens, a run being ended by whitespace
\* or a hyphen and every other character skipped
RECURSIVE SlugFrom(_, _, _, _)
SlugFrom(s, i, acc, pending) ==
    IF i > Len(s) THEN acc
    ELSE LET c == toLowerCaseChar(At(s, i))
         IN  IF c \in CharsOf(LowerCase) \cup CharsOf(Digits) \cup {"_"}
             THEN SlugFrom(s, i + 1,
                           acc \o (IF pending /\ acc # "" THEN "-" ELSE "") \o c, FALSE)
             ELSE IF c \in WhiteSpace \cup {"-"}
             THEN SlugFrom(s, i + 1, acc, TRUE)
             ELSE SlugFrom(s, i + 1, acc, pending)

SlugChars == CharsOf(LowerCase) \cup CharsOf(Digits) \cup {"_", "-"}

\* C9: generateId(s) is the slug of s; the result holds only [a-z0-9_-], has
\* no two consecutive hyphens and neither starts nor ends with a hyphen;
\* generateId("Hello, World!") = "hello-world".
C9_GenerateIdSlug ==
    pc = "generated" =>
        LET id == ret[1]
        IN  /\ id = SlugFrom(arg, 1, "", FALSE)
            /\ CharsOf(id) \subseteq SlugChars
            /\ IndexOf(id, 1, "--") = 0
            /\ ~LitAt(id, 1, "-")
            /\ ~LitAt(id, Len(id), "-")
            /\ arg = "Hello, World!" => id = "hello-world"

\* a text with leading whitespace, a hyphen next to whitespace and punctuation
C9_Witness ==
    /\ pc = "generated"
    /\ arg \in {" - ", "H -", "Hello, World!"}
    /\ arg = " - " => ret = <<"">>
    /\ arg = "H -" => ret = <<"h">>
    /\ arg = "Hello, World!" => ret = <<"hello-world">>

====
